---- MODULE Spec2Model ----
(***************************************************************************)
(* A model of the object manager hashed map (ObMap) of LeechCore,          *)
(* src/leechcore/ob/ob_map.c.                                              *)
(*                                                                         *)
(* The map is the record held in the variable m: the count c (index 0 is   *)
(* reserved), the hash table size and grow threshold, the mode flags, the  *)
(* entry storage and the two open-addressed hash tables.  Every internal   *)
(* function _ObMap_X of the source is an operator of the same name that    *)
(* takes the map record and returns the new record (and the return value); *)
(* every public function ObMap_X is an action.                             *)
(*                                                                         *)
(* Representation:                                                         *)
(*  - Store is the entry storage Directory[d][t][s], flattened by the      *)
(*    logical index i = (d << 17) | (t << 8) | s.  Its length is the       *)
(*    highest index ever written; it keeps the stale content of removed    *)
(*    entries as the code does.  Never written storage reads as zero.      *)
(*  - a hash table is the function from its occupied slots to the logical  *)
(*    index held there; a slot outside the domain holds 0.                 *)
(*  - keys (QWORD) and values (PVOID, hashed as QWORD) are naturals below  *)
(*    2^16, NULL is 0.                                                     *)
(*  - Directory is the set of the d whose table Directory[d] is allocated, *)
(*    Stores the set of the <<d, t>> whose store block is allocated.       *)
(*  - base is the number of leading entries that are not represented:     *)
(*    Store starts at the logical index base + 1, Directory and Stores at  *)
(*    the table and store of the entry base.  It is 0 but in the map that  *)
(*    is filled up to its capacity.                                        *)
(***************************************************************************)
EXTENDS Integers, Sequences, FiniteSets, TLC

VARIABLES
    m,        \* the map (OB_MAP)
    last,     \* the last public call made: its name, arguments and results
    hist,     \* while every call since ObMap_New was a Push of a fresh pair: those pairs
    gen,      \* the bulk insertion driver: pairs generated, calls made
    LockSRW,  \* pm->LockSRW: 0 when free, else the thread that holds it exclusively
    th,       \* the threads that call ObMap_Push concurrently
    it,       \* a caller iterating with ObMap_GetNextByIndex: its cursor and what it got
    heap      \* the process heap and the objects' reference counts, as far as the map touches them

NULL == 0

\* ------------------------------------------------------------------ constants

\* ObMap_New: pObMap->cHashMax = 0x100
INITIAL_HASH_MAX == 256

\* ObMap_New: pObMap->cHashGrowThreshold = 0xc0
INITIAL_GROW_THRESHOLD == 192

\* OB_MAP_ENTRIES_DIRECTORY * OB_MAP_ENTRIES_TABLE * OB_MAP_ENTRIES_STORE
OB_MAP_TABLE_MAX_CAPACITY == 256 * 512 * 256

\* ------------------------------------------------------------------ inputs

\* Keys offered to the map.  Under the initial mask 0xff the keys 187 and 443
\* hash to slot 255 and the key 0 to slot 0, so that probe chains collide and
\* wrap around the end of the table.
Keys == {0, 187, 443}

\* Non-null values (handles) offered to the map: 187 and 443 hash to slot 255,
\* 256 to slot 0.
Vals == {187, 443, 256}

\* ------------------------------------------------------------------ hashing

\* _rotr16((WORD)v, 9) for v < 2^16
rotr16_9(v) == (v \div 512) + (v % 512) * 128

\* the low 26 bits of _rotr((DWORD)v, 17) for v < 2^16: bits 0..10 move to bits 15..25
rotr32_17_low26(v) == (v \div 131072) + (v % 2048) * 32768

\* the low 26 bits of _rotr64(v, 31) for v < 2^16: v << 33 has none
rotr64_31_low26(v) == 0

\* The low 26 bits of OB_MAP_HASH_FUNCTION(v) for v < 2^16.  The hash is only
\* ever used masked by cHashMax - 1, which is at most 2^26 - 1: the table has
\* 2^26 slots when the map is at its capacity of 2^25.
OB_MAP_HASH_FUNCTION(v) == (13 * ((v + rotr16_9(v) + rotr32_17_low26(v) + rotr64_31_low26(v)) % 67108864)) % 67108864

\* OB_MAP_HASH_FUNCTION(kv) & dwHashMask, dwHashMask = cHashMax - 1
HashIndex(mm, kv) == OB_MAP_HASH_FUNCTION(kv) % mm.cHashMax

\* (iHash + 1) & dwHashMask
NextHashIndex(mm, iHash) == (iHash + 1) % mm.cHashMax

\* ------------------------------------------------------------------ storage

ZeroEntry == [k |-> 0, v |-> NULL]

\* pm->Directory[OB_MAP_INDEX_DIRECTORY(i)][OB_MAP_INDEX_TABLE(i)][OB_MAP_INDEX_STORE(i)]
DirectoryEntry(mm, i) == IF i - mm.base \in 1..Len(mm.Store) THEN mm.Store[i - mm.base] ELSE ZeroEntry

\* a write of the entry at logical index i
WriteEntry(mm, i, e) == [mm EXCEPT !.Store = IF i - mm.base \in 1..Len(@) THEN [@ EXCEPT ![i - mm.base] = e] ELSE Append(@, e)]

\* pHashMapValue[iHash] / pHashMapKey[iHash]
HashSlot(mm, fValueHash, iHash) == LET h == IF fValueHash THEN mm.pHashMapValue ELSE mm.pHashMapKey IN IF iHash \in DOMAIN h THEN h[iHash] ELSE 0

\* a hash table with slot iHash set to iEntry
WithSlot(h, iHash, iEntry) == IF iEntry = 0 THEN [j \in DOMAIN h \ {iHash} |-> h[j]] ELSE (iHash :> iEntry) @@ h

\* a zeroed hash table (ZeroMemory, LMEM_ZEROINIT)
ZeroHashMap == [j \in {} |-> 0]

\* unsigned (DWORD) a >= b; 0xFFFFFFFF is written DWORD_MAX
DWORD_MAX == 0 - 1

DwGE(a, b) == IF a = DWORD_MAX THEN TRUE ELSE IF b = DWORD_MAX THEN FALSE ELSE a >= b

_ObMap_GetFromIndex(mm, iEntry) == IF iEntry = 0 \/ DwGE(iEntry, mm.c) THEN NULL ELSE iEntry

_ObMap_GetFromEntryIndex(mm, fValueHash, iEntry) ==
    LET pe == _ObMap_GetFromIndex(mm, iEntry)
    IN  IF pe # NULL THEN (IF fValueHash THEN DirectoryEntry(mm, pe).v ELSE DirectoryEntry(mm, pe).k) ELSE 0

_ObMap_SetHashIndex(mm, fValueHash, iHash, iEntry) ==
    IF fValueHash THEN [mm EXCEPT !.pHashMapValue = WithSlot(@, iHash, iEntry)]
    ELSE IF mm.fKey THEN [mm EXCEPT !.pHashMapKey = WithSlot(@, iHash, iEntry)]
    ELSE mm

\* a faulty probe: takes the home slot whether it is occupied or not
InsertHashProbe_NoProbe(mm, fValueHash, iHash) == iHash

\* the while loop of _ObMap_InsertHash: the first empty slot from iHash on
RECURSIVE InsertHashProbe(_, _, _)
InsertHashProbe(mm, fValueHash, iHash) ==
    IF HashSlot(mm, fValueHash, iHash) # 0
    THEN InsertHashProbe(mm, fValueHash, NextHashIndex(mm, iHash))
    ELSE iHash

\* a faulty insertion: the key hash table is filled in a map without keys too
_ObMap_InsertHash_AlwaysKey(mm, fValueHash, iEntry) ==
    LET qwValueToHash == _ObMap_GetFromEntryIndex(mm, fValueHash, iEntry)
        iHash == InsertHashProbe(mm, fValueHash, HashIndex(mm, qwValueToHash))
    IN  IF fValueHash THEN [mm EXCEPT !.pHashMapValue = WithSlot(@, iHash, iEntry)]
        ELSE [mm EXCEPT !.pHashMapKey = WithSlot(@, iHash, iEntry)]

_ObMap_InsertHash(mm, fValueHash, iEntry) ==
    IF ~fValueHash /\ ~mm.fKey THEN mm
    ELSE LET qwValueToHash == _ObMap_GetFromEntryIndex(mm, fValueHash, iEntry)
             iHash == InsertHashProbe(mm, fValueHash, HashIndex(mm, qwValueToHash))
         IN  _ObMap_SetHashIndex(mm, fValueHash, iHash, iEntry)

\* the first while loop of _ObMap_RemoveHash: the slot that holds iEntry
RECURSIVE RemoveHashFind(_, _, _, _)
RemoveHashFind(mm, fValueHash, iHash, iEntry) ==
    IF iEntry = HashSlot(mm, fValueHash, iHash)
    THEN iHash
    ELSE RemoveHashFind(mm, fValueHash, NextHashIndex(mm, iHash), iEntry)

\* a faulty delete: clears the slot and leaves the entries that follow in place
RemoveHashRehash_None(mm, fValueHash, iHash) == mm

\* the second while loop of _ObMap_RemoveHash: re-hash the entries that follow
RECURSIVE RemoveHashRehash(_, _, _)
RemoveHashRehash(mm, fValueHash, iHash) ==
    LET iNextHash == NextHashIndex(mm, iHash)
        iNextEntry == HashSlot(mm, fValueHash, iNextHash)
        qwNextEntry == _ObMap_GetFromEntryIndex(mm, fValueHash, iNextEntry)
        iNextHashPreferred == HashIndex(mm, qwNextEntry)
    IN  IF iNextEntry = 0 THEN mm
        ELSE IF iNextHash = iNextHashPreferred THEN RemoveHashRehash(mm, fValueHash, iNextHash)
        ELSE RemoveHashRehash(_ObMap_InsertHash(_ObMap_SetHashIndex(mm, fValueHash, iNextHash, 0), fValueHash, iNextEntry), fValueHash, iNextHash)

_ObMap_RemoveHash(mm, fValueHash, kv, iEntry) ==
    IF ~fValueHash /\ ~mm.fKey THEN mm
    ELSE LET iHash == RemoveHashFind(mm, fValueHash, HashIndex(mm, kv), iEntry)
         IN  RemoveHashRehash(_ObMap_SetHashIndex(mm, fValueHash, iHash, 0), fValueHash, iHash)

\* the scan of _ObMap_GetEntryIndexFromKeyOrValue: the index found, 0 for FALSE
RECURSIVE GetEntryIndexScan(_, _, _, _)
GetEntryIndexScan(mm, fValueHash, kv, iHash) ==
    LET iEntry == HashSlot(mm, fValueHash, iHash)
    IN  IF iEntry = 0 THEN 0
        ELSE IF kv = _ObMap_GetFromEntryIndex(mm, fValueHash, iEntry) THEN iEntry
        ELSE GetEntryIndexScan(mm, fValueHash, kv, NextHashIndex(mm, iHash))

\* a faulty lookup: nothing is ever found
_ObMap_GetEntryIndexFromKeyOrValue_NotFound(mm, fValueHash, kv) == 0

\* returns *piEntry on TRUE (a logical index >= 1) and 0 on FALSE
_ObMap_GetEntryIndexFromKeyOrValue(mm, fValueHash, kv) ==
    IF ~fValueHash /\ ~mm.fKey THEN 0
    ELSE GetEntryIndexScan(mm, fValueHash, kv, HashIndex(mm, kv))

\* ------------------------------------------------------------------ retrieve

\* a faulty existence check: looks values up and never keys
_ObMap_Exists_ValueOnly(mm, fValueHash, kv) ==
    fValueHash /\ kv # 0 /\ _ObMap_GetEntryIndexFromKeyOrValue(mm, fValueHash, kv) # 0

_ObMap_Exists(mm, fValueHash, kv) ==
    IF (~fValueHash /\ ~mm.fKey) \/ (fValueHash /\ kv = 0) THEN FALSE
    ELSE _ObMap_GetEntryIndexFromKeyOrValue(mm, fValueHash, kv) # 0

ObMap_Size(mm) == mm.c - 1

ObMap_Exists(mm, pvObject) == _ObMap_Exists(mm, TRUE, pvObject)

ObMap_ExistsKey(mm, qwKey) == _ObMap_Exists(mm, FALSE, qwKey)

_ObMap_GetByEntryIndex(mm, iEntry) == _ObMap_GetFromEntryIndex(mm, TRUE, iEntry)

_ObMap_GetByKey(mm, qwKey) ==
    LET iEntry == _ObMap_GetEntryIndexFromKeyOrValue(mm, FALSE, qwKey)
    IN  IF iEntry # 0 THEN _ObMap_GetByEntryIndex(mm, iEntry) ELSE NULL

_ObMap_GetKey(mm, pvObject) ==
    LET iEntry == _ObMap_GetEntryIndexFromKeyOrValue(mm, TRUE, pvObject)
    IN  IF iEntry = 0 THEN 0 ELSE DirectoryEntry(mm, _ObMap_GetFromIndex(mm, iEntry)).k

\* a faulty next: steps over the entry that follows pvObject
_ObMap_GetNext_SkipOne(mm, pvObject) ==
    LET iEntry == _ObMap_GetEntryIndexFromKeyOrValue(mm, TRUE, pvObject)
    IN  IF pvObject = NULL THEN _ObMap_GetByEntryIndex(mm, 1)
        ELSE IF iEntry = 0 THEN NULL
        ELSE _ObMap_GetByEntryIndex(mm, iEntry + 2)

_ObMap_GetNext(mm, pvObject) ==
    LET iEntry == _ObMap_GetEntryIndexFromKeyOrValue(mm, TRUE, pvObject)
    IN  IF pvObject = NULL THEN _ObMap_GetByEntryIndex(mm, 1)
        ELSE IF iEntry = 0 THEN NULL
        ELSE _ObMap_GetByEntryIndex(mm, iEntry + 1)

\* a faulty iteration: the entry after the last one is the first
ObMap_GetNext_Wrap(mm, pvObject) ==
    IF pvObject # NULL /\ pvObject = _ObMap_GetByEntryIndex(mm, mm.c - 1) THEN _ObMap_GetByEntryIndex(mm, 1)
    ELSE _ObMap_GetNext(mm, pvObject)

ObMap_GetNext(mm, pvObject) == _ObMap_GetNext(mm, pvObject)

\* _ObMap_QFind: for(i = 1; ((cMap - 1) >> i); i++);
RECURSIVE QFindBits(_, _)
QFindBits(x, i) == IF x \div (2 ^ i) # 0 THEN QFindBits(x, i + 1) ELSE i

\* a faulty start: without if(i == 0) { i = 1; }
QFindStart_Zero(cMap) ==
    LET i == QFindBits(cMap - 1, 1)
        a == 2 ^ (i - 1)
        b == (cMap - 1) \div 2
    IN  IF a < b THEN a ELSE b

\* _ObMap_QFind: the index the search starts at
QFindStart(cMap) ==
    LET i == QFindBits(cMap - 1, 1)
        a == 2 ^ (i - 1)
        b == (cMap - 1) \div 2
        j == IF a < b THEN a ELSE b
    IN  IF j = 0 THEN 1 ELSE j

\* _ObMap_QFind: while(dwStep > 1); [done, i, reads]: done when the key was
\* hit, reads the logical indices whose entry was read
RECURSIVE QFindBinary(_, _, _, _, _, _)
QFindBinary(mm, qwKey, i, dwStep, cMap, reads) ==
    IF dwStep > 1
    THEN IF DirectoryEntry(mm, i).k < qwKey
         THEN QFindBinary(mm, qwKey, IF i + dwStep <= cMap THEN i + dwStep ELSE i, dwStep \div 2, cMap, reads \cup {i})
         ELSE IF DirectoryEntry(mm, i).k > qwKey
         THEN QFindBinary(mm, qwKey, i - dwStep, dwStep \div 2, cMap, reads \cup {i})
         ELSE [done |-> TRUE, i |-> i, reads |-> reads \cup {i}]
    ELSE [done |-> FALSE, i |-> i, reads |-> reads]

\* a faulty scan: going up it returns the index it came from
RECURSIVE QFindLinear_OffByOne(_, _, _, _, _)
QFindLinear_OffByOne(mm, qwKey, i, cMap, reads) ==
    IF DirectoryEntry(mm, i).k < qwKey
    THEN IF i = cMap THEN [i |-> 0, reads |-> reads \cup {i}]
         ELSE IF DirectoryEntry(mm, i + 1).k >= qwKey THEN [i |-> i, reads |-> reads \cup {i, i + 1}]
         ELSE QFindLinear_OffByOne(mm, qwKey, i + 1, cMap, reads \cup {i, i + 1})
    ELSE IF DirectoryEntry(mm, i).k > qwKey
    THEN IF i = 1 THEN [i |-> 1, reads |-> reads \cup {i}]
         ELSE IF DirectoryEntry(mm, i - 1).k < qwKey THEN [i |-> i, reads |-> reads \cup {i, i - 1}]
         ELSE QFindLinear_OffByOne(mm, qwKey, i - 1, cMap, reads \cup {i, i - 1})
    ELSE [i |-> i, reads |-> reads \cup {i}]

\* _ObMap_QFind: while(TRUE); [i, reads]: i is *pdwIndex on TRUE, 0 on FALSE
RECURSIVE QFindLinear(_, _, _, _, _)
QFindLinear(mm, qwKey, i, cMap, reads) ==
    IF DirectoryEntry(mm, i).k < qwKey
    THEN IF i = cMap THEN [i |-> 0, reads |-> reads \cup {i}]
         ELSE IF DirectoryEntry(mm, i + 1).k >= qwKey THEN [i |-> i + 1, reads |-> reads \cup {i, i + 1}]
         ELSE QFindLinear(mm, qwKey, i + 1, cMap, reads \cup {i, i + 1})
    ELSE IF DirectoryEntry(mm, i).k > qwKey
    THEN IF i = 1 THEN [i |-> 1, reads |-> reads \cup {i}]
         ELSE IF DirectoryEntry(mm, i - 1).k < qwKey THEN [i |-> i, reads |-> reads \cup {i, i - 1}]
         ELSE QFindLinear(mm, qwKey, i - 1, cMap, reads \cup {i, i - 1})
    ELSE [i |-> i, reads |-> reads \cup {i}]

\* the two loops, b being what the first one gave
QFindLoops(mm, qwKey, cMap, b) ==
    IF b.done THEN [i |-> b.i, reads |-> b.reads] ELSE QFindLinear(mm, qwKey, b.i, cMap, b.reads)

\* _ObMap_QFind: [i, reads], i being *pdwIndex on TRUE (a logical index >= 1)
\* and 0 on FALSE, reads the logical indices whose entry was read
QFindRun(mm, qwKey) ==
    IF mm.c <= 1 THEN [i |-> 0, reads |-> {}]
    ELSE QFindLoops(mm, qwKey, mm.c - 1,
                    QFindBinary(mm, qwKey, QFindStart(mm.c - 1), QFindStart(mm.c - 1) \div 2, mm.c - 1, {}))

\* *pdwIndex on TRUE (a logical index >= 1), 0 on FALSE
_ObMap_QFind(mm, qwKey) == QFindRun(mm, qwKey).i

_ObMap_GetNextByKeySorted(mm, qwKey) ==
    LET iEntry == _ObMap_GetEntryIndexFromKeyOrValue(mm, FALSE, qwKey)
        iFind == _ObMap_QFind(mm, qwKey)
    IN  IF qwKey = 0 THEN _ObMap_GetByEntryIndex(mm, 1)
        ELSE IF iEntry # 0 THEN _ObMap_GetByEntryIndex(mm, iEntry + 1)
        ELSE IF iFind # 0 THEN _ObMap_GetByEntryIndex(mm, iFind)
        ELSE NULL

ObMap_GetNextByKeySorted(mm, qwKey) == _ObMap_GetNextByKeySorted(mm, qwKey)

ObMap_GetByIndex(mm, index) == _ObMap_GetByEntryIndex(mm, index + 1)

ObMap_GetByKey(mm, qwKey) == _ObMap_GetByKey(mm, qwKey)

ObMap_GetKey(mm, pvObject) == _ObMap_GetKey(mm, pvObject)

\* _ObMap_GetNextByIndex: [index |-> *pdwIndex on return, ret |-> the object];
\* a DWORD below zero stands for its value plus 2^32
_ObMap_GetNextByIndex(mm, dwIndex, pvObject) ==
    LET i == IF pvObject # NULL THEN mm.c - 1 ELSE dwIndex - 1
    IN  [index |-> i, ret |-> _ObMap_GetByEntryIndex(mm, i)]

ObMap_GetNextByIndex(mm, dwIndex, pvObject) == _ObMap_GetNextByIndex(mm, dwIndex, pvObject)

ObMap_Peek(mm) == _ObMap_GetByEntryIndex(mm, mm.c - 1)

ObMap_PeekKey(mm) == _ObMap_GetFromEntryIndex(mm, FALSE, mm.c - 1)

\* ------------------------------------------------------------------ remove

\* _ObMap_RetrieveAndRemoveByEntryIndex: the two _ObMap_RemoveHash calls for iEntry
RemoveEntryHashes(mm, iEntry, qwRemoveKey, qwRemoveValue) ==
    _ObMap_RemoveHash(_ObMap_RemoveHash(mm, FALSE, qwRemoveKey, iEntry), TRUE, qwRemoveValue, iEntry)

\* a faulty move: the last item is copied into the empty bucket and its hash
\* entries are removed, but it is not inserted again under its new index
RemoveMoveLast_NoReinsert(mm, iEntry, pRemoveEntry, pLastEntry) ==
    WriteEntry(RemoveEntryHashes(mm, mm.c - 1, DirectoryEntry(mm, pLastEntry).k, DirectoryEntry(mm, pLastEntry).v),
               pRemoveEntry, DirectoryEntry(mm, pLastEntry))

\* _ObMap_RetrieveAndRemoveByEntryIndex: move the last item into the empty bucket
RemoveMoveLast(mm, iEntry, pRemoveEntry, pLastEntry) ==
    _ObMap_InsertHash(
        _ObMap_InsertHash(
            WriteEntry(RemoveEntryHashes(mm, mm.c - 1, DirectoryEntry(mm, pLastEntry).k, DirectoryEntry(mm, pLastEntry).v),
                       pRemoveEntry, DirectoryEntry(mm, pLastEntry)),
            FALSE, iEntry),
        TRUE, iEntry)

\* a faulty removal: the hash entries go and the count drops, but the last item
\* is not moved into the empty bucket
_ObMap_RetrieveAndRemoveByEntryIndex_NoMove(mm, iEntry) ==
    IF _ObMap_GetFromIndex(mm, iEntry) = NULL THEN [m |-> mm, ret |-> NULL, key |-> 0]
    ELSE [m |-> [RemoveEntryHashes(mm, iEntry, DirectoryEntry(mm, iEntry).k, DirectoryEntry(mm, iEntry).v) EXCEPT !.c = @ - 1],
          ret |-> DirectoryEntry(mm, iEntry).v, key |-> DirectoryEntry(mm, iEntry).k]

\* [m, ret, key]: the map afterwards, the value returned (NULL on failure) and *pKey
_ObMap_RetrieveAndRemoveByEntryIndex(mm, iEntry) ==
    LET pRemoveEntry == _ObMap_GetFromIndex(mm, iEntry)
        qwRemoveKey == DirectoryEntry(mm, pRemoveEntry).k
        qwRemoveValue == DirectoryEntry(mm, pRemoveEntry).v
    IN  IF pRemoveEntry = NULL THEN [m |-> mm, ret |-> NULL, key |-> 0]
        ELSE [m |-> [(IF iEntry < mm.c - 1
                      THEN RemoveMoveLast(RemoveEntryHashes(mm, iEntry, qwRemoveKey, qwRemoveValue), iEntry,
                                          pRemoveEntry, _ObMap_GetFromIndex(mm, mm.c - 1))
                      ELSE RemoveEntryHashes(mm, iEntry, qwRemoveKey, qwRemoveValue)) EXCEPT !.c = @ - 1],
              ret |-> qwRemoveValue, key |-> qwRemoveKey]

_ObMap_RemoveOrRemoveByKey(mm, fValueHash, kv) ==
    LET iEntry == _ObMap_GetEntryIndexFromKeyOrValue(mm, fValueHash, kv)
    IN  IF fValueHash /\ kv = 0 THEN [m |-> mm, ret |-> NULL, key |-> 0]
        ELSE IF iEntry = 0 THEN [m |-> mm, ret |-> NULL, key |-> 0]
        ELSE _ObMap_RetrieveAndRemoveByEntryIndex(mm, iEntry)

\* a faulty clear: resets the count and zeroes the value hash table only
_ObMap_Clear_KeepKeyHash(mm) ==
    IF mm.c <= 1 THEN mm
    ELSE [mm EXCEPT !.pHashMapValue = ZeroHashMap, !.c = 1]

\* the body of ObMap_Clear
_ObMap_Clear(mm) ==
    IF mm.c <= 1 THEN mm
    ELSE [mm EXCEPT !.pHashMapValue = ZeroHashMap, !.pHashMapKey = ZeroHashMap, !.c = 1]

\* ------------------------------------------------------------------ sort

\* a faulty compare function: descending
CmpSortLess_Descending(e1, e2) == e1.k > e2.k

\* _ObMap_SortEntryIndexByKey_CmpSort(p1, p2) < 0
CmpSortLess(e1, e2) == e1.k < e2.k

\* the indices of S no other index of S sorts before
SortMinima(mm, S) == {i \in S : \A j \in S : ~CmpSortLess(DirectoryEntry(mm, j), DirectoryEntry(mm, i))}

\* qsort(pSort + 1, c - 1, ...): every order of the entries of S the compare
\* function accepts (qsort is not stable: entries that compare equal may end in
\* either order)
RECURSIVE QSortResults(_, _)
QSortResults(mm, S) ==
    IF S = {} THEN {<< >>}
    ELSE UNION {{<<DirectoryEntry(mm, i)>> \o t : t \in QSortResults(mm, S \ {i})} : i \in SortMinima(mm, S)}

\* the for loops that insert every index into one hash table
RECURSIVE InsertHashAll(_, _, _)
InsertHashAll(mm, fValueHash, iEntry) ==
    IF iEntry < mm.c THEN InsertHashAll(_ObMap_InsertHash(mm, fValueHash, iEntry), fValueHash, iEntry + 1) ELSE mm

\* the copy back of the sorted entries
SortWriteBack(mm, pSort) == [mm EXCEPT !.Store = [i \in 1..Len(@) |-> IF i < mm.c THEN pSort[i] ELSE @[i]]]

\* _ObMap_SortEntryIndex with qsort's result pSort
_ObMap_SortEntryIndex(mm, pSort) ==
    LET m1 == SortWriteBack(mm, pSort)
        m2 == IF m1.fKey THEN InsertHashAll([m1 EXCEPT !.pHashMapKey = ZeroHashMap], FALSE, 1) ELSE m1
    IN  InsertHashAll([m2 EXCEPT !.pHashMapValue = ZeroHashMap], TRUE, 1)

\* ------------------------------------------------------------------ create / insert

\* a faulty reinsertion: fills the value hash table and leaves the key hash table empty
RECURSIVE GrowReinsert_ValueOnly(_, _, _)
GrowReinsert_ValueOnly(mm, iFirst, iEnd) ==
    IF ~(iFirst < mm.c) \/ iFirst >= iEnd THEN mm
    ELSE IF iFirst + 1 = iEnd THEN _ObMap_InsertHash(mm, TRUE, iFirst)
    ELSE LET iMid == (iFirst + iEnd) \div 2
         IN  GrowReinsert_ValueOnly(GrowReinsert_ValueOnly(mm, iFirst, iMid), iMid, iEnd)

\* the for loop of _ObMap_Grow, for(iEntry = iFirst; iEntry < pm->c; iEntry++),
\* up to iEnd: the entries are inserted in ascending order (the range is halved
\* to keep the evaluation shallow)
RECURSIVE GrowReinsert(_, _, _)
GrowReinsert(mm, iFirst, iEnd) ==
    IF ~(iFirst < mm.c) \/ iFirst >= iEnd THEN mm
    ELSE IF iFirst + 1 = iEnd
         THEN _ObMap_InsertHash(_ObMap_InsertHash(mm, TRUE, iFirst), FALSE, iFirst)
    ELSE LET iMid == (iFirst + iEnd) \div 2
         IN  GrowReinsert(GrowReinsert(mm, iFirst, iMid), iMid, iEnd)

\* a faulty growth: the threshold is not doubled
_ObMap_Grow_KeepThreshold(mm) ==
    GrowReinsert([mm EXCEPT !.cHashMax = @ * 2, !.pHashMapValue = ZeroHashMap, !.pHashMapKey = ZeroHashMap,
                            !.fLargeMode = TRUE], 1, mm.c)

\* _ObMap_Grow, every allocation succeeding
_ObMap_Grow(mm) ==
    LET m1 == IF ~mm.fLargeMode
              THEN [mm EXCEPT !.pHashMapKey = ZeroHashMap, !.pHashMapValue = ZeroHashMap, !.fLargeMode = TRUE]
              ELSE mm
        m2 == [m1 EXCEPT !.cHashMax = @ * 2, !.cHashGrowThreshold = @ * 2, !.pHashMapValue = ZeroHashMap,
                         !.pHashMapKey = IF m1.fKey THEN ZeroHashMap ELSE @]
    IN  GrowReinsert(m2, 1, m2.c)

\* OB_MAP_INDEX_DIRECTORY(i) and OB_MAP_INDEX_TABLE(i)
OB_MAP_INDEX_DIRECTORY(i) == (i \div 131072) % 256

OB_MAP_INDEX_TABLE(i) == (i \div 256) % 512

\* the allocation of a call that fails, if it is attempted: the hash arrays and
\* the directory table of _ObMap_Grow, the table and the store of _ObMap_Push,
\* the scratch buffer of _ObMap_SortEntryIndex, the copy of _ObMap_PushCopy
AllocFailures == {"none", "copy", "hash", "directory", "table", "store", "scratch"}

\* _ObMap_Grow with LocalAlloc failing as fail says: [ok, m, leaked], leaked
\* being the number of blocks allocated by the call that nothing points to
_ObMap_GrowAlloc(mm, fail) ==
    IF fail = "hash" THEN [ok |-> FALSE, m |-> mm, leaked |-> 0]
    ELSE IF ~mm.fLargeMode /\ fail = "directory"
    THEN [ok |-> FALSE, m |-> [mm EXCEPT !.Directory = @ \ {0}], leaked |-> 1]
    ELSE [ok |-> TRUE, m |-> [_ObMap_Grow(mm) EXCEPT !.Directory = @ \cup {0}], leaked |-> 0]

\* _ObMap_Push: allocate "table" if required, allocate "store" if required: [ok, m]
PushAllocStorage(mm, iEntry, fail) ==
    IF OB_MAP_INDEX_DIRECTORY(iEntry) \notin mm.Directory /\ fail = "table" THEN [ok |-> FALSE, m |-> mm]
    ELSE IF /\ <<OB_MAP_INDEX_DIRECTORY(iEntry), OB_MAP_INDEX_TABLE(iEntry)>> \notin mm.Stores
            /\ fail = "store"
    THEN [ok |-> FALSE, m |-> [mm EXCEPT !.Directory = @ \cup {OB_MAP_INDEX_DIRECTORY(iEntry)}]]
    ELSE [ok |-> TRUE,
          m |-> [mm EXCEPT !.Directory = @ \cup {OB_MAP_INDEX_DIRECTORY(iEntry)},
                           !.Stores = @ \cup {<<OB_MAP_INDEX_DIRECTORY(iEntry), OB_MAP_INDEX_TABLE(iEntry)>>}]]

\* _ObMap_Push after its checks: _ObMap_Grow at the threshold, then the storage
PushGrowAndAlloc(mm, iEntry, fail) ==
    IF iEntry = mm.cHashGrowThreshold /\ ~_ObMap_GrowAlloc(mm, fail).ok
    THEN [ok |-> FALSE, m |-> _ObMap_GrowAlloc(mm, fail).m, iEntry |-> iEntry, leaked |-> _ObMap_GrowAlloc(mm, fail).leaked]
    ELSE [ok |-> PushAllocStorage(IF iEntry = mm.cHashGrowThreshold THEN _ObMap_GrowAlloc(mm, fail).m ELSE mm, iEntry, fail).ok,
          m |-> PushAllocStorage(IF iEntry = mm.cHashGrowThreshold THEN _ObMap_GrowAlloc(mm, fail).m ELSE mm, iEntry, fail).m,
          iEntry |-> iEntry, leaked |-> 0]

\* a faulty capacity check: never at capacity
PushAtCapacity_Never(iEntry) == FALSE

\* _ObMap_Push: if(iEntry == OB_MAP_TABLE_MAX_CAPACITY) return FALSE
PushAtCapacity(iEntry) == iEntry = OB_MAP_TABLE_MAX_CAPACITY

\* _ObMap_Push up to the allocation of the storage, with LocalAlloc failing as
\* fail says: [ok, m, iEntry, leaked]
PushPrepareAlloc(mm, qwKey, pvObject, fail) ==
    IF pvObject = NULL \/ _ObMap_Exists(mm, TRUE, pvObject) \/ _ObMap_Exists(mm, FALSE, qwKey)
    THEN [ok |-> FALSE, m |-> mm, iEntry |-> mm.c, leaked |-> 0]
    ELSE IF PushAtCapacity(mm.c) THEN [ok |-> FALSE, m |-> mm, iEntry |-> mm.c, leaked |-> 0]
    ELSE PushGrowAndAlloc(mm, mm.c, fail)

\* _ObMap_Push up to the allocation of the storage, every allocation succeeding:
\* [ok, m, iEntry]
PushPrepare(mm, qwKey, pvObject) == PushPrepareAlloc(mm, qwKey, pvObject, "none")

\* _ObMap_Push: pm->c++; pe = _ObMap_GetFromIndex(pm, iEntry); pe->k = qwKey; pe->v = pvObject
PushStore(mm, iEntry, qwKey, pvObject) ==
    LET m1 == [mm EXCEPT !.c = @ + 1]
    IN  WriteEntry(m1, _ObMap_GetFromIndex(m1, iEntry), [k |-> qwKey, v |-> pvObject])

\* _ObMap_Push: the two _ObMap_InsertHash calls
PushInsertHash(mm, iEntry) == _ObMap_InsertHash(_ObMap_InsertHash(mm, TRUE, iEntry), FALSE, iEntry)

\* [m, ret]
_ObMap_Push(mm, qwKey, pvObject) ==
    LET p == PushPrepare(mm, qwKey, pvObject)
    IN  IF ~p.ok THEN [m |-> p.m, ret |-> FALSE]
        ELSE [m |-> PushInsertHash(PushStore(p.m, p.iEntry, qwKey, pvObject), p.iEntry), ret |-> TRUE]

\* _ObMap_Push with LocalAlloc failing as fail says: [m, ret, leaked]
_ObMap_PushAlloc(mm, qwKey, pvObject, fail) ==
    LET p == PushPrepareAlloc(mm, qwKey, pvObject, fail)
    IN  IF ~p.ok THEN [m |-> p.m, ret |-> FALSE, leaked |-> p.leaked]
        ELSE [m |-> PushInsertHash(PushStore(p.m, p.iEntry, qwKey, pvObject), p.iEntry), ret |-> TRUE, leaked |-> 0]

\* the flags of ObMap_New (their bit values are not part of ob_map.c)
OB_MAP_FLAGS_OBJECT_OB == "OB_MAP_FLAGS_OBJECT_OB"

OB_MAP_FLAGS_OBJECT_LOCALFREE == "OB_MAP_FLAGS_OBJECT_LOCALFREE"

OB_MAP_FLAGS_NOKEY == "OB_MAP_FLAGS_NOKEY"

OB_MAP_FLAGS == {OB_MAP_FLAGS_OBJECT_OB, OB_MAP_FLAGS_OBJECT_LOCALFREE, OB_MAP_FLAGS_NOKEY}

\* the flag sets of a map that neither counts references nor frees its values
PlainFlags == {{}, {OB_MAP_FLAGS_NOKEY}}

\* a faulty check of the flags: every combination is accepted
BothOwnerships_Never(flags) == FALSE

\* ObMap_New: (flags & OB_MAP_FLAGS_OBJECT_OB) && (flags & OB_MAP_FLAGS_OBJECT_LOCALFREE)
BothOwnerships(flags) == OB_MAP_FLAGS_OBJECT_OB \in flags /\ OB_MAP_FLAGS_OBJECT_LOCALFREE \in flags

\* ObMap_New(H, flags), flags being the set of the bits that are set; NULL when
\* both ownership flags are given.  Directory holds the d with Directory[d]
\* non-null, Stores the <<d, t>> with Directory[d][t] non-null.
ObMap_New(flags) ==
    IF BothOwnerships(flags) THEN NULL
    ELSE [c |-> 1, cHashMax |-> INITIAL_HASH_MAX, cHashGrowThreshold |-> INITIAL_GROW_THRESHOLD,
          fLargeMode |-> FALSE, fKey |-> OB_MAP_FLAGS_NOKEY \notin flags,
          fObjectsOb |-> OB_MAP_FLAGS_OBJECT_OB \in flags,
          fObjectsLocalFree |-> OB_MAP_FLAGS_OBJECT_LOCALFREE \in flags,
          pHashMapKey |-> ZeroHashMap, pHashMapValue |-> ZeroHashMap, Store |-> << >>, base |-> 0,
          Directory |-> {0}, Stores |-> {<<0, 0>>}]

\* ------------------------------------------------------------------ the public calls, one at a time

\* the live (key, value) pairs: the entries at the logical indices 1..c-1
LiveIndices(mm) == 1..(mm.c - 1)

LivePairs(mm) == {<<DirectoryEntry(mm, i).k, DirectoryEntry(mm, i).v>> : i \in LiveIndices(mm)}

LiveKeys(mm) == {DirectoryEntry(mm, i).k : i \in LiveIndices(mm)}

LiveValues(mm) == {DirectoryEntry(mm, i).v : i \in LiveIndices(mm)}

\* the call moved an entry: an index live before and after holds another entry
Reordered(mm, mn) == \E i \in LiveIndices(mm) \cap LiveIndices(mn) : DirectoryEntry(mm, i) # DirectoryEntry(mn, i)

Call(op, k, v, ret, key, mm, mn) == [op |-> op, k |-> k, v |-> v, ret |-> ret, key |-> key, reordered |-> Reordered(mm, mn)]

NoCall == [op |-> "New", k |-> 0, v |-> NULL, ret |-> NULL, key |-> 0, reordered |-> FALSE]

\* the record of the pushes made since ObMap_New, kept while the calls are
\* pushes of pairwise distinct keys and pairwise distinct non-null values
NoHist == [ok |-> FALSE, pushed |-> << >>, nTrue |-> 0]

NewHist == [ok |-> TRUE, pushed |-> << >>, nTrue |-> 0]

HistPush(h, qwKey, pvObject, ret) ==
    IF /\ h.ok
       /\ pvObject # NULL
       /\ \A j \in 1..Len(h.pushed) : h.pushed[j][1] # qwKey /\ h.pushed[j][2] # pvObject
    THEN [ok |-> TRUE, pushed |-> Append(h.pushed, <<qwKey, pvObject>>), nTrue |-> h.nTrue + (IF ret THEN 1 ELSE 0)]
    ELSE NoHist

NoGen == [n |-> 0, g |-> 0, ops |-> 0]

\* the heap of a run that does not look at allocations, buffers or reference
\* counts: leaked counts the blocks nothing points to, buf is the set of the
\* outstanding value buffers, ref the reference count of each object, held the
\* references the caller holds, twice is set by a LocalFree of a buffer that is
\* not outstanding
NoHeap == [leaked |-> 0, buf |-> {}, ref |-> << >>, held |-> << >>, twice |-> FALSE]

NoThreads == << >>

NoIter == [cursor |-> 0, prev |-> NULL, ret |-> NULL, calls |-> 0, started |-> FALSE, out |-> << >>]

Init ==
    /\ \E flags \in PlainFlags : m = ObMap_New(flags)
    /\ last = NoCall
    /\ hist = NewHist
    /\ gen = NoGen
    /\ LockSRW = 0
    /\ th = NoThreads
    /\ it = NoIter
    /\ heap = NoHeap

ObMap_Push(qwKey, pvObject) ==
    LET r == _ObMap_Push(m, qwKey, pvObject)
    IN  /\ m' = r.m
        /\ last' = Call("Push", qwKey, pvObject, r.ret, 0, m, r.m)
        /\ hist' = HistPush(hist, qwKey, pvObject, r.ret)
        /\ UNCHANGED <<heap, gen, LockSRW, th, it>>

ObMap_Remove(pvObject) ==
    LET r == _ObMap_RemoveOrRemoveByKey(m, TRUE, pvObject)
    IN  /\ m' = r.m
        /\ last' = Call("Remove", 0, pvObject, r.ret, 0, m, r.m)
        /\ hist' = NoHist
        /\ UNCHANGED <<heap, gen, LockSRW, th, it>>

ObMap_RemoveByKey(qwKey) ==
    LET r == _ObMap_RemoveOrRemoveByKey(m, FALSE, qwKey)
    IN  /\ m' = r.m
        /\ last' = Call("RemoveByKey", qwKey, NULL, r.ret, 0, m, r.m)
        /\ hist' = NoHist
        /\ UNCHANGED <<heap, gen, LockSRW, th, it>>

\* a faulty pop: removes the first entry
PopEntryIndex_First(mm) == 1

\* ObMap_Pop / ObMap_PopWithKey: the index they remove, pm->c - 1
PopEntryIndex(mm) == mm.c - 1

ObMap_Pop ==
    LET r == _ObMap_RetrieveAndRemoveByEntryIndex(m, PopEntryIndex(m))
    IN  /\ m' = r.m
        /\ last' = Call("Pop", 0, NULL, r.ret, 0, m, r.m)
        /\ hist' = NoHist
        /\ UNCHANGED <<heap, gen, LockSRW, th, it>>

ObMap_PopWithKey ==
    LET r == _ObMap_RetrieveAndRemoveByEntryIndex(m, PopEntryIndex(m))
    IN  /\ m' = r.m
        /\ last' = Call("PopWithKey", 0, NULL, r.ret, r.key, m, r.m)
        /\ hist' = NoHist
        /\ UNCHANGED <<heap, gen, LockSRW, th, it>>

ObMap_Clear ==
    /\ m' = _ObMap_Clear(m)
    /\ last' = Call("Clear", 0, NULL, TRUE, 0, m, m)
    /\ hist' = NoHist
    /\ UNCHANGED <<heap, gen, LockSRW, th, it>>

ObMap_SortEntryIndexByKey ==
    \E pSort \in QSortResults(m, LiveIndices(m)) :
        /\ m' = _ObMap_SortEntryIndex(m, pSort)
        /\ last' = Call("Sort", 0, NULL, TRUE, 0, m, _ObMap_SortEntryIndex(m, pSort))
        /\ hist' = NoHist
        /\ UNCHANGED <<heap, gen, LockSRW, th, it>>

vars == <<m, last, hist, gen, LockSRW, th, it, heap>>

Next ==
    \/ \E k \in Keys, v \in Vals \cup {NULL} : ObMap_Push(k, v)
    \/ \E v \in Vals \cup {NULL} : ObMap_Remove(v)
    \/ \E k \in Keys : ObMap_RemoveByKey(k)
    \/ ObMap_Pop
    \/ ObMap_PopWithKey
    \/ ObMap_Clear
    \/ ObMap_SortEntryIndexByKey

Spec == Init /\ [][Next]_vars

\* ------------------------------------------------------------------ properties of the calls made one at a time

\* C1: from a new keyed map, after pushes of pairwise distinct keys and pairwise
\* distinct non-null values, ObMap_Size is the number of pushes that returned
\* TRUE and every pushed pair (k, v) has ObMap_GetByKey(k) = v, ObMap_ExistsKey(k),
\* ObMap_Exists(v) and ObMap_GetKey(v) = k.
C1_PushedPairsRetrievable ==
    (hist.ok /\ m.fKey) =>
        /\ ObMap_Size(m) = hist.nTrue
        /\ \A j \in 1..Len(hist.pushed) :
            LET k == hist.pushed[j][1]
                v == hist.pushed[j][2]
            IN  /\ ObMap_GetByKey(m, k) = v
                /\ ObMap_ExistsKey(m, k)
                /\ ObMap_Exists(m, v)
                /\ ObMap_GetKey(m, v) = k

\* three pairs pushed into a new keyed map, one of them stored away from its home slot
C1_Witness ==
    /\ hist.ok /\ m.fKey /\ Len(hist.pushed) = 3
    /\ \E iHash \in DOMAIN m.pHashMapKey : HashIndex(m, DirectoryEntry(m, m.pHashMapKey[iHash]).k) # iHash
    /\ \E iHash \in DOMAIN m.pHashMapValue : HashIndex(m, DirectoryEntry(m, m.pHashMapValue[iHash]).v) # iHash

\* C2: in a keyed map a Push of a live key, of a live value or of NULL returns
\* FALSE and leaves the map (count, entries, both hash tables) as it was.
C2_RejectedPushChangesNothing ==
    [][(last'.op = "Push" /\ m.fKey /\ (last'.v = NULL \/ last'.v \in LiveValues(m) \/ last'.k \in LiveKeys(m)))
        => (last'.ret = FALSE /\ m' = m)]_vars

\* a push of a fresh value under a live key was rejected
C2_Witness ==
    /\ last.op = "Push" /\ last.ret = FALSE /\ m.fKey
    /\ last.v # NULL /\ last.v \notin LiveValues(m) /\ last.k \in LiveKeys(m)
    /\ ObMap_Size(m) = 2

\* the indices ObMap_Remove(v) / ObMap_RemoveByKey(k) is to remove
RemoveTargets(mm, op, k, v) ==
    IF op = "Remove" THEN {i \in LiveIndices(mm) : v # NULL /\ DirectoryEntry(mm, i).v = v}
    ELSE IF mm.fKey THEN {i \in LiveIndices(mm) : DirectoryEntry(mm, i).k = k}
    ELSE {}

\* the pair p is found by value, and in a keyed map by key; in a map without keys
\* the key lookup answers as it did in mo
PairFound(mm, mo, p) ==
    /\ ObMap_Exists(mm, p[2])
    /\ ObMap_GetKey(mm, p[2]) = p[1]
    /\ IF mm.fKey THEN ObMap_ExistsKey(mm, p[1]) /\ ObMap_GetByKey(mm, p[1]) = p[2]
       ELSE ObMap_ExistsKey(mm, p[1]) = ObMap_ExistsKey(mo, p[1]) /\ ObMap_GetByKey(mm, p[1]) = ObMap_GetByKey(mo, p[1])

\* C3: a successful ObMap_Remove(v) / ObMap_RemoveByKey(k) of the live pair (k, v)
\* returns v, leaves v and k not found, takes one off the size and leaves every
\* other live pair found by value and by key with its association; a removal
\* of an absent key or value returns NULL and changes nothing.
C3_RemoveKeepsOthers ==
    [][last'.op \in {"Remove", "RemoveByKey"} =>
        LET T == RemoveTargets(m, last'.op, last'.k, last'.v)
        IN  IF T = {} THEN last'.ret = NULL /\ m' = m
            ELSE \E i \in T :
                    LET e == DirectoryEntry(m, i)
                    IN  /\ last'.ret = e.v
                        /\ ~ObMap_Exists(m', e.v)
                        /\ ~ObMap_ExistsKey(m', e.k)
                        /\ ObMap_Size(m') = ObMap_Size(m) - 1
                        /\ LivePairs(m') = LivePairs(m) \ {<<e.k, e.v>>}
                        /\ \A p \in LivePairs(m) \ {<<e.k, e.v>>} : PairFound(m', m, p)]_vars

\* a removal by key that moved the last entry into the freed index, two pairs left
C3_Witness ==
    /\ last.op = "RemoveByKey" /\ last.ret # NULL /\ last.reordered
    /\ m.fKey /\ ObMap_Size(m) = 2

\* the (key, value) pairs ObMap_PopWithKey returns when repeated until NULL
RECURSIVE PopAll(_)
PopAll(mm) ==
    LET r == _ObMap_RetrieveAndRemoveByEntryIndex(mm, PopEntryIndex(mm))
    IN  IF r.ret = NULL THEN << >> ELSE <<(<<r.key, r.ret>>)>> \o PopAll(r.m)

\* the map that is left when Pop has returned NULL
RECURSIVE PopAllMap(_)
PopAllMap(mm) ==
    LET r == _ObMap_RetrieveAndRemoveByEntryIndex(mm, PopEntryIndex(mm))
    IN  IF r.ret = NULL THEN r.m ELSE PopAllMap(r.m)

\* the live pairs from the last logical index down to the first
ReverseLive(mm) == [j \in 1..(mm.c - 1) |-> <<DirectoryEntry(mm, mm.c - j).k, DirectoryEntry(mm, mm.c - j).v>>]

C4_PopAllReverse ==
    /\ PopAll(m) = ReverseLive(m)
    /\ Len(PopAll(m)) = ObMap_Size(m)
    /\ PopAllMap(m).c = 1

C4_PopStep ==
    last'.op \in {"Pop", "PopWithKey"} =>
        IF m.c = 1 THEN last'.ret = NULL /\ m' = m /\ m'.c = 1
        ELSE /\ last'.ret = DirectoryEntry(m, m.c - 1).v
             /\ last'.op = "PopWithKey" => last'.key = DirectoryEntry(m, m.c - 1).k
             /\ m'.c = m.c - 1
             /\ \A i \in LiveIndices(m') :
                    /\ DirectoryEntry(m', i) = DirectoryEntry(m, i)
                    /\ _ObMap_GetEntryIndexFromKeyOrValue(m', TRUE, DirectoryEntry(m, i).v) = i

\* C4: Pop / PopWithKey remove the entry at the last logical index c-1 and leave
\* the index of every other entry unchanged; repeated until NULL they return
\* the entries in the reverse of their logical order, as many as the size was,
\* and Pop on an empty map returns NULL and leaves c = 1.
C4_PopLastInReverseOrder == []C4_PopAllReverse /\ [][C4_PopStep]_vars

\* PopWithKey took the last of three entries
C4_Witness == last.op = "PopWithKey" /\ last.ret # NULL /\ ObMap_Size(m) = 2

\* C5: after ObMap_SortEntryIndexByKey the live pairs and the count are as
\* before, the keys at the indices 1..c-1 are in non-decreasing order, forward
\* iteration (GetByIndex, GetNext) returns them in that order, and every pair is
\* found by value (and in a keyed map by key) at its new index.
C5_SortByKey ==
    [][last'.op = "Sort" =>
        /\ last'.ret = TRUE
        /\ LivePairs(m') = LivePairs(m)
        /\ m'.c = m.c
        /\ \A i \in LiveIndices(m') :
            LET e == DirectoryEntry(m', i)
            IN  /\ (i + 1 < m'.c) => e.k <= DirectoryEntry(m', i + 1).k
                /\ ObMap_GetByIndex(m', i - 1) = e.v
                /\ ObMap_GetNext(m', e.v) = (IF i + 1 < m'.c THEN DirectoryEntry(m', i + 1).v ELSE NULL)
                /\ _ObMap_GetEntryIndexFromKeyOrValue(m', TRUE, e.v) = i
                /\ ObMap_GetKey(m', e.v) = e.k
                /\ m'.fKey => (_ObMap_GetEntryIndexFromKeyOrValue(m', FALSE, e.k) = i /\ ObMap_GetByKey(m', e.k) = e.v)]_vars

\* a sort of a keyed map of three entries that moved entries
C5_Witness == last.op = "Sort" /\ last.reordered /\ m.fKey /\ ObMap_Size(m) = 3

\* ------------------------------------------------------------------ sorted maps

\* the largest key offered to the sorted map; its keys are 0..MaxSortKey
MaxSortKey == 10

SortKeys == 0..MaxSortKey

\* the value pushed under the key k
SortValue(k) == 1000 + k

\* the keys at the indices 1..c-1 ascend / descend
KeysAscend(mm) == \A i \in LiveIndices(mm) : (i + 1 < mm.c) => DirectoryEntry(mm, i).k < DirectoryEntry(mm, i + 1).k

KeysDescend(mm) == \A i \in LiveIndices(mm) : (i + 1 < mm.c) => DirectoryEntry(mm, i).k > DirectoryEntry(mm, i + 1).k

InitSorted ==
    /\ m = ObMap_New({})
    /\ last = NoCall
    /\ hist = NewHist
    /\ gen = NoGen
    /\ LockSRW = 0
    /\ th = NoThreads
    /\ it = NoIter
    /\ heap = NoHeap

\* the caller fills the map in ascending or in descending key order
PushInKeyOrder ==
    \E k \in SortKeys :
        /\ \/ m.c = 1
           \/ KeysAscend(m) /\ k > ObMap_PeekKey(m)
           \/ KeysDescend(m) /\ k < ObMap_PeekKey(m)
        /\ ObMap_Push(k, SortValue(k))

NextSorted ==
    \/ PushInKeyOrder
    \/ ObMap_SortEntryIndexByKey

SpecSorted == InitSorted /\ [][NextSorted]_vars

\* the value of the first (lowest index) live entry whose key satisfies P, NULL if none
FirstValueWith(mm, P(_)) ==
    LET S == {i \in LiveIndices(mm) : P(DirectoryEntry(mm, i).k)}
    IN  IF S = {} THEN NULL ELSE DirectoryEntry(mm, CHOOSE i \in S : \A j \in S : i <= j).v

\* the keys ObMap_GetNextByKeySorted is asked for
ProbeKeys == 0..(MaxSortKey + 1)

\* C6 as claimed: on a keyed map sorted ascending by key ObMap_GetNextByKeySorted(K)
\* returns the value of the first live entry with key >= K, NULL when there is none.
C6_Original_FirstKeyAtLeast ==
    (m.fKey /\ KeysAscend(m)) =>
        \A K \in ProbeKeys :
            LET AtLeast(k) == k >= K
            IN  ObMap_GetNextByKeySorted(m, K) = FirstValueWith(m, AtLeast)

\* C6 (amended): on a keyed map sorted ascending by key ObMap_GetNextByKeySorted(0)
\* returns the value of the first entry, and for K # 0 it returns the value of
\* the first live entry with key > K (the entry after K when K is a live key,
\* the first entry with key >= K when it is not); NULL exactly when there is none.
C6_FirstKeyAbove ==
    (m.fKey /\ KeysAscend(m)) =>
        \A K \in ProbeKeys :
            LET AtLeast(k) == k >= K
                Above(k) == k > K
            IN  ObMap_GetNextByKeySorted(m, K) = (IF K = 0 THEN FirstValueWith(m, AtLeast) ELSE FirstValueWith(m, Above))

\* a map of nine or more entries put in order by the sort (the binary search
\* of _ObMap_QFind takes steps), asked for an absent key that has a successor
\* and for a live key that has one
C6_Witness ==
    /\ m.fKey /\ KeysAscend(m) /\ last.op = "Sort" /\ last.reordered
    /\ ObMap_Size(m) >= 9 /\ QFindStart(m.c - 1) \div 2 > 1
    /\ \E K \in ProbeKeys : K # 0 /\ K \notin LiveKeys(m) /\ ObMap_GetNextByKeySorted(m, K) # NULL
    /\ \E K \in ProbeKeys : K # 0 /\ K \in LiveKeys(m) /\ ObMap_GetNextByKeySorted(m, K) # NULL

\* ------------------------------------------------------------------ bulk insertion past the grow threshold

\* the number of ObMap_Push calls the bulk insertion makes: past the second
\* doubling of the hash tables, at c = 384
MaxGrowPush == 390

\* the number of Clear / Pop / RemoveByKey calls made in between
MaxGrowOps == 1

\* the i-th pair the caller inserts.  The keys collide in the tables of 256, 512
\* and 1024 slots, the values in those of 256 and 512 slots.
GrowKey(i) == 37 * i + 5

GrowValue(i) == 100 * i

InitGrow ==
    /\ \E flags \in PlainFlags : m = ObMap_New(flags)
    /\ last = NoCall
    /\ hist = NoHist
    /\ gen = NoGen
    /\ LockSRW = 0
    /\ th = NoThreads
    /\ it = NoIter
    /\ heap = NoHeap

\* the calls in between are made on a map of two entries and right after a growth
GrowOpPoint ==
    /\ gen.ops < MaxGrowOps
    /\ \/ ~m.fLargeMode /\ m.c = 3
       \/ m.fLargeMode /\ m.c = (m.cHashGrowThreshold \div 2) + 1

BulkPush ==
    /\ gen.n < MaxGrowPush
    /\ LET r == _ObMap_Push(m, GrowKey(gen.g + 1), GrowValue(gen.g + 1))
       IN  /\ m' = r.m
           /\ last' = Call("Push", GrowKey(gen.g + 1), GrowValue(gen.g + 1), r.ret, 0, m, r.m)
    /\ gen' = [gen EXCEPT !.n = @ + 1, !.g = @ + 1]
    /\ UNCHANGED <<heap, hist, LockSRW, th, it>>

\* after a Clear the caller inserts the same pairs again
BulkClear ==
    /\ GrowOpPoint
    /\ m' = _ObMap_Clear(m)
    /\ last' = Call("Clear", 0, NULL, TRUE, 0, m, m)
    /\ gen' = [gen EXCEPT !.g = 0, !.ops = @ + 1]
    /\ UNCHANGED <<heap, hist, LockSRW, th, it>>

BulkPop ==
    /\ GrowOpPoint
    /\ LET r == _ObMap_RetrieveAndRemoveByEntryIndex(m, PopEntryIndex(m))
       IN  /\ m' = r.m
           /\ last' = Call("Pop", 0, NULL, r.ret, 0, m, r.m)
    /\ gen' = [gen EXCEPT !.ops = @ + 1]
    /\ UNCHANGED <<heap, hist, LockSRW, th, it>>

BulkRemove ==
    /\ GrowOpPoint
    /\ LET r == _ObMap_RemoveOrRemoveByKey(m, TRUE, GrowValue(1))
       IN  /\ m' = r.m
           /\ last' = Call("Remove", 0, GrowValue(1), r.ret, 0, m, r.m)
    /\ gen' = [gen EXCEPT !.ops = @ + 1]
    /\ UNCHANGED <<heap, hist, LockSRW, th, it>>

NextGrow ==
    \/ BulkPush
    \/ BulkClear
    \/ BulkPop
    \/ BulkRemove

SpecGrow == InitGrow /\ [][NextGrow]_vars

\* C7: ObMap_Clear on a non-empty map, in small or in large mode, sets the size
\* to 0, leaves every key and value that was live not found by ExistsKey, Exists
\* and GetByKey, leaves no slot of either hash table occupied, and a Push of any
\* pair that was live succeeds and the pair is found.
C7_ClearEmptiesTheMap ==
    [][(last'.op = "Clear" /\ m.c > 1) =>
        /\ ObMap_Size(m') = 0
        /\ m'.pHashMapKey = ZeroHashMap
        /\ m'.pHashMapValue = ZeroHashMap
        /\ \A p \in LivePairs(m) :
            /\ ~ObMap_ExistsKey(m', p[1])
            /\ ~ObMap_Exists(m', p[2])
            /\ ObMap_GetByKey(m', p[1]) = NULL
            /\ LET r == _ObMap_Push(m', p[1], p[2])
               IN  /\ r.ret = TRUE
                   /\ ObMap_Size(r.m) = 1
                   /\ PairFound(r.m, m', p)]_vars

\* a Clear of a map in large mode that held 192 entries or more
C7_Witness ==
    /\ last.op = "Clear" /\ m.c = 1 /\ m.fLargeMode /\ m.fKey
    /\ Len(m.Store) >= INITIAL_GROW_THRESHOLD

\* C8: when a successful Push crosses the grow threshold (the first growth, which
\* switches to large mode, and every later doubling) every pair inserted before
\* is still found by key and by value, with its association and at its logical
\* index, and the growth does not modify the entry storage.
C8_GrowthKeepsLookups ==
    [][(last'.op = "Push" /\ last'.ret = TRUE /\ m.c = m.cHashGrowThreshold) =>
        /\ m'.cHashMax = 2 * m.cHashMax
        /\ m'.cHashGrowThreshold = 2 * m.cHashGrowThreshold
        /\ m'.fLargeMode
        /\ _ObMap_Grow(m).Store = m.Store
        /\ _ObMap_Grow(m).c = m.c
        /\ \A i \in (1..Len(m.Store)) \ {m.c} : DirectoryEntry(m', i) = DirectoryEntry(m, i)
        /\ \A i \in LiveIndices(m) :
            LET e == DirectoryEntry(m, i)
            IN  /\ DirectoryEntry(m', i) = e
                /\ _ObMap_GetEntryIndexFromKeyOrValue(m', TRUE, e.v) = i
                /\ m.fKey => _ObMap_GetEntryIndexFromKeyOrValue(m', FALSE, e.k) = i
                /\ PairFound(m', m, <<e.k, e.v>>)]_vars

\* the push that doubled the hash tables of a keyed map a second time, to 1024 slots
C8_Witness ==
    /\ last.op = "Push" /\ last.ret = TRUE /\ m.fKey /\ m.fLargeMode
    /\ m.cHashMax = 4 * INITIAL_HASH_MAX
    /\ m.c = (m.cHashGrowThreshold \div 2) + 1

\* ------------------------------------------------------------------ concurrent pushes

\* the number of threads and the number of ObMap_Push calls each of them makes
NThreads == 2

PushesPerThread == 2

Threads == 1..NThreads

\* the pairs of the threads are pairwise disjoint; the keys of threads 1 and 2
\* share a home slot (255 in the table of 256 slots, the probe wraps to 0), and
\* so do their values (slot 141)
ConcKey(t, j) == 187 + (256 * ((NThreads * (j - 1)) + (t - 1)))

ConcValue(t, j) == 1 + (256 * ((NThreads * (j - 1)) + (t - 1)))

ConcPairs == {<<ConcKey(t, j), ConcValue(t, j)>> : t \in Threads, j \in 1..PushesPerThread}

\* a faulty lock: AcquireSRWLockExclusive returns while another thread holds it
LockFree_Always(lock) == TRUE

\* AcquireSRWLockExclusive returns when no thread holds the lock
LockFree(lock) == lock = 0

InitConc ==
    /\ \E flags \in PlainFlags : m = ObMap_New(flags)
    /\ last = NoCall
    /\ hist = NoHist
    /\ gen = NoGen
    /\ LockSRW = 0
    /\ th = [t \in Threads |-> [pc |-> "idle", n |-> 0, rets |-> << >>, iEntry |-> 0, retVal |-> FALSE]]
    /\ it = NoIter
    /\ heap = NoHeap

\* OB_MAP_CALL_SYNCHRONIZED_IMPLEMENTATION_WRITE: AcquireSRWLockExclusive(&pm->LockSRW)
ThreadAcquire(t) ==
    /\ th[t].pc = "idle"
    /\ th[t].n < PushesPerThread
    /\ LockFree(LockSRW)
    /\ LockSRW' = t
    /\ th' = [th EXCEPT ![t].pc = "prepare"]
    /\ UNCHANGED <<heap, m, last, hist, gen, it>>

\* _ObMap_Push: iEntry = pm->c, the checks, _ObMap_Grow, the allocations
ThreadPushPrepare(t) ==
    /\ th[t].pc = "prepare"
    /\ LET p == PushPrepare(m, ConcKey(t, th[t].n + 1), ConcValue(t, th[t].n + 1))
       IN  /\ m' = p.m
           /\ th' = [th EXCEPT ![t].pc = IF p.ok THEN "store" ELSE "release",
                               ![t].iEntry = p.iEntry,
                               ![t].retVal = FALSE]
    /\ UNCHANGED <<heap, last, hist, gen, LockSRW, it>>

\* _ObMap_Push: pm->c++ and the write of the entry
ThreadPushStore(t) ==
    /\ th[t].pc = "store"
    /\ m' = PushStore(m, th[t].iEntry, ConcKey(t, th[t].n + 1), ConcValue(t, th[t].n + 1))
    /\ th' = [th EXCEPT ![t].pc = "hash"]
    /\ UNCHANGED <<heap, last, hist, gen, LockSRW, it>>

\* _ObMap_Push: the two _ObMap_InsertHash calls and return TRUE
ThreadPushInsertHash(t) ==
    /\ th[t].pc = "hash"
    /\ m' = PushInsertHash(m, th[t].iEntry)
    /\ th' = [th EXCEPT ![t].pc = "release", ![t].retVal = TRUE]
    /\ UNCHANGED <<heap, last, hist, gen, LockSRW, it>>

\* ReleaseSRWLockExclusive(&pm->LockSRW); return retVal
ThreadRelease(t) ==
    /\ th[t].pc = "release"
    /\ LockSRW' = 0
    /\ th' = [th EXCEPT ![t].pc = "idle", ![t].n = @ + 1, ![t].rets = Append(@, th[t].retVal)]
    /\ last' = [op |-> "Push", k |-> ConcKey(t, th[t].n + 1), v |-> ConcValue(t, th[t].n + 1),
                ret |-> th[t].retVal, key |-> 0, reordered |-> FALSE]
    /\ UNCHANGED <<heap, m, hist, gen, it>>

NextConc ==
    \E t \in Threads :
        \/ ThreadAcquire(t)
        \/ ThreadPushPrepare(t)
        \/ ThreadPushStore(t)
        \/ ThreadPushInsertHash(t)
        \/ ThreadRelease(t)

SpecConc == InitConc /\ [][NextConc]_vars

AllThreadsDone == \A t \in Threads : th[t].pc = "idle" /\ th[t].n = PushesPerThread

\* C9: when NThreads threads have each made PushesPerThread calls of ObMap_Push on
\* the same map with pairwise disjoint keys and values, whatever the interleaving,
\* every call has returned TRUE, ObMap_Size is NThreads * PushesPerThread, and
\* every pair is found by value and (in a keyed map) by key, each exactly once.
C9_ConcurrentPushesAllKept ==
    AllThreadsDone =>
        /\ \A t \in Threads : \A j \in 1..PushesPerThread : th[t].rets[j] = TRUE
        /\ ObMap_Size(m) = NThreads * PushesPerThread
        /\ LivePairs(m) = ConcPairs
        /\ Cardinality(ConcPairs) = NThreads * PushesPerThread
        /\ \A p \in ConcPairs :
            /\ ObMap_Exists(m, p[2])
            /\ ObMap_GetKey(m, p[2]) = p[1]
            /\ m.fKey => ObMap_ExistsKey(m, p[1]) /\ ObMap_GetByKey(m, p[1]) = p[2]
            /\ Cardinality({i \in LiveIndices(m) : DirectoryEntry(m, i).k = p[1]}) = 1
            /\ Cardinality({i \in LiveIndices(m) : DirectoryEntry(m, i).v = p[2]}) = 1

\* all threads are done on a keyed map, and the pushes of thread 2 and of thread 1
\* alternated, so that the colliding keys were inserted by different threads
C9_Witness ==
    /\ AllThreadsDone
    /\ m.fKey
    /\ DirectoryEntry(m, 1).k = ConcKey(2, 1)
    /\ DirectoryEntry(m, 2).k = ConcKey(1, 1)
    /\ _ObMap_GetEntryIndexFromKeyOrValue(m, FALSE, ConcKey(1, 1)) = 2

\* ------------------------------------------------------------------ iteration by index

\* the number of entries of the maps iterated over, and of calls of one iteration
MaxIterEntries == 3

MaxIterCalls == 5

\* the pairs the maps are built from
IterPairs == {<<10 * i, 100 + i>> : i \in 1..MaxIterEntries}

\* the values the caller's cursor variable may hold before the first call
IterCursors == 0..(MaxIterEntries + 2)

InitIter ==
    /\ \E flags \in PlainFlags : m = ObMap_New(flags)
    /\ last = NoCall
    /\ hist = NoHist
    /\ gen = NoGen
    /\ LockSRW = 0
    /\ th = NoThreads
    /\ it = NoIter
    /\ heap = NoHeap

\* the map is built before the iteration starts and is not changed during it
IterPush ==
    /\ ~it.started
    /\ \E p \in IterPairs :
        LET r == _ObMap_Push(m, p[1], p[2])
        IN  /\ r.ret = TRUE
            /\ m' = r.m
            /\ last' = Call("Push", p[1], p[2], r.ret, 0, m, r.m)
    /\ UNCHANGED <<heap, hist, gen, LockSRW, th, it>>

\* the first call: ObMap_GetNextByIndex(pm, &dwIndex, NULL)
IterStart ==
    /\ ~it.started
    /\ \E dwIndex \in IterCursors :
        LET r == ObMap_GetNextByIndex(m, dwIndex, NULL)
        IN  it' = [cursor |-> r.index, prev |-> NULL, ret |-> r.ret, calls |-> 1, started |-> TRUE, out |-> <<r.ret>>]
    /\ last' = [op |-> "GetNextByIndex", k |-> 0, v |-> NULL, ret |-> it'.ret, key |-> 0, reordered |-> FALSE]
    /\ UNCHANGED <<heap, m, hist, gen, LockSRW, th>>

\* a later call: ObMap_GetNextByIndex(pm, &dwIndex, pvObject) with the object
\* the call before returned
IterNext ==
    /\ it.started
    /\ it.ret # NULL
    /\ it.calls < MaxIterCalls
    /\ LET r == ObMap_GetNextByIndex(m, it.cursor, it.ret)
       IN  it' = [cursor |-> r.index, prev |-> it.ret, ret |-> r.ret, calls |-> it.calls + 1, started |-> TRUE,
                  out |-> Append(it.out, r.ret)]
    /\ last' = [op |-> "GetNextByIndex", k |-> 0, v |-> it.ret, ret |-> it'.ret, key |-> 0, reordered |-> FALSE]
    /\ UNCHANGED <<heap, m, hist, gen, LockSRW, th>>

NextIter ==
    \/ IterPush
    \/ IterStart
    \/ IterNext

SpecIter == InitIter /\ [][NextIter]_vars

\* C10: an iteration by index started with pvObject = NULL sets the cursor to
\* c - 1 whatever the caller's cursor held and returns the last entry; the j-th
\* call leaves the cursor at c - j and returns the entry at that index, so the
\* calls return the entries at c-1, c-2, ..., 1 once each and then NULL.
C10_ReverseIterationFromNull ==
    it.started =>
        /\ it.cursor = m.c - it.calls
        /\ it.out = [j \in 1..it.calls |-> _ObMap_GetByEntryIndex(m, m.c - j)]
        /\ it.ret = NULL <=> it.calls = m.c

\* ------------------------------------------------------------------ iteration with pushes and removals in between

\* the number of pushes and of removals made while an iteration is under way
MaxIterPushes == 1

MaxIterRemoves == 1

\* the pairs pushed while an iteration is under way
LatePairs == {<<10 * i, 100 + i>> : i \in (MaxIterEntries + 1)..(MaxIterEntries + MaxIterPushes)}

\* the number of times v occurs in the sequence s
Occurrences(s, v) == Cardinality({j \in 1..Len(s) : s[j] = v})

\* the caller's record of an iteration: live0 are the values live at its start,
\* out the objects returned so far, pushed / removed the values pushed and removed
\* since the start, removedCurrent whether a removal took the object returned last
NoIterMut ==
    [kind |-> "none", cursor |-> 0, prev |-> NULL, ret |-> NULL, calls |-> 0, started |-> FALSE, out |-> << >>,
     live0 |-> {}, pushed |-> {}, removed |-> {}, removedCurrent |-> FALSE]

InitIterMut ==
    /\ \E flags \in PlainFlags : m = ObMap_New(flags)
    /\ last = NoCall
    /\ hist = NoHist
    /\ gen = NoGen
    /\ LockSRW = 0
    /\ th = NoThreads
    /\ it = NoIterMut
    /\ heap = NoHeap

IterUnderWay == it.started /\ it.ret # NULL

\* the first call of a reverse iteration: ObMap_GetNextByIndex(pm, &dwIndex, NULL)
MutStartByIndex ==
    /\ ~it.started
    /\ \E dwIndex \in IterCursors :
        LET r == ObMap_GetNextByIndex(m, dwIndex, NULL)
        IN  it' = [it EXCEPT !.kind = "index", !.cursor = r.index, !.ret = r.ret, !.calls = 1, !.started = TRUE,
                             !.out = <<r.ret>>, !.live0 = LiveValues(m)]
    /\ last' = [op |-> "GetNextByIndex", k |-> 0, v |-> NULL, ret |-> it'.ret, key |-> 0, reordered |-> FALSE]
    /\ UNCHANGED <<heap, m, hist, gen, LockSRW, th>>

\* the first call of a forward iteration: ObMap_GetNext(pm, NULL)
MutStartNext ==
    /\ ~it.started
    /\ it' = [it EXCEPT !.kind = "next", !.ret = ObMap_GetNext(m, NULL), !.calls = 1, !.started = TRUE,
                        !.out = <<ObMap_GetNext(m, NULL)>>, !.live0 = LiveValues(m)]
    /\ last' = [op |-> "GetNext", k |-> 0, v |-> NULL, ret |-> it'.ret, key |-> 0, reordered |-> FALSE]
    /\ UNCHANGED <<heap, m, hist, gen, LockSRW, th>>

\* a later call, with the object the call before returned
MutNext ==
    /\ IterUnderWay
    /\ it.calls < MaxIterCalls
    /\ LET r == IF it.kind = "index" THEN ObMap_GetNextByIndex(m, it.cursor, it.ret)
                ELSE [index |-> it.cursor, ret |-> ObMap_GetNext(m, it.ret)]
       IN  it' = [it EXCEPT !.cursor = r.index, !.prev = it.ret, !.ret = r.ret, !.calls = @ + 1,
                            !.out = Append(@, r.ret)]
    /\ last' = [op |-> IF it.kind = "index" THEN "GetNextByIndex" ELSE "GetNext", k |-> 0, v |-> it.ret,
                ret |-> it'.ret, key |-> 0, reordered |-> FALSE]
    /\ UNCHANGED <<heap, m, hist, gen, LockSRW, th>>

\* ObMap_Push between two calls of the iteration
MutPush ==
    /\ IterUnderWay
    /\ Cardinality(it.pushed) < MaxIterPushes
    /\ \E p \in LatePairs :
        LET r == _ObMap_Push(m, p[1], p[2])
        IN  /\ r.ret = TRUE
            /\ m' = r.m
            /\ last' = Call("Push", p[1], p[2], r.ret, 0, m, r.m)
            /\ it' = [it EXCEPT !.pushed = @ \cup {p[2]}]
    /\ UNCHANGED <<heap, hist, gen, LockSRW, th>>

\* the values the iteration has returned that are still live
ReturnedLive == {it.out[j] : j \in 1..Len(it.out)} \cap LiveValues(m)

\* ObMap_Remove, between two calls, of the object returned last or of one returned before
MutRemove ==
    /\ IterUnderWay
    /\ Cardinality(it.removed) < MaxIterRemoves
    /\ \E v \in ReturnedLive :
        LET r == _ObMap_RemoveOrRemoveByKey(m, TRUE, v)
        IN  /\ m' = r.m
            /\ last' = Call("Remove", 0, v, r.ret, 0, m, r.m)
            /\ it' = [it EXCEPT !.removed = @ \cup {v}, !.removedCurrent = @ \/ v = it.ret]
    /\ UNCHANGED <<heap, hist, gen, LockSRW, th>>

\* ObMap_RemoveByKey, between two calls, of the key of such an object
MutRemoveByKey ==
    /\ IterUnderWay
    /\ m.fKey
    /\ Cardinality(it.removed) < MaxIterRemoves
    /\ \E v \in ReturnedLive :
        LET r == _ObMap_RemoveOrRemoveByKey(m, FALSE, ObMap_GetKey(m, v))
        IN  /\ m' = r.m
            /\ last' = Call("RemoveByKey", ObMap_GetKey(m, v), NULL, r.ret, 0, m, r.m)
            /\ it' = [it EXCEPT !.removed = @ \cup {r.ret}, !.removedCurrent = @ \/ r.ret = it.ret]
    /\ UNCHANGED <<heap, hist, gen, LockSRW, th>>

NextIterMut ==
    \/ IterPush
    \/ MutStartByIndex
    \/ MutStartNext
    \/ MutNext
    \/ MutPush
    \/ MutRemove
    \/ MutRemoveByKey

SpecIterMut == InitIterMut /\ [][NextIterMut]_vars

\* C11: in a reverse iteration by index with pushes and with removals of the
\* current or of already returned entries in between, no entry is returned twice,
\* no entry pushed after the start is returned, and when the iteration has
\* returned NULL every entry live at the start and not removed has been returned.
C11_ReverseIterationWithMutation ==
    (it.started /\ it.kind = "index") =>
        /\ \A v \in it.live0 \cup it.pushed : Occurrences(it.out, v) <= 1
        /\ \A v \in it.pushed : Occurrences(it.out, v) = 0
        /\ it.ret = NULL => \A v \in it.live0 \ it.removed : Occurrences(it.out, v) = 1

\* the claim as it was stated for C12: in a forward iteration with pushes and with
\* removals of already returned entries other than the current one in between, no
\* entry is returned twice, and when the iteration has returned NULL every entry
\* live at the start and not removed has been returned
C12_Original_RemovalOfVisitedSafe ==
    (it.started /\ it.kind = "next" /\ ~it.removedCurrent) =>
        /\ \A v \in it.live0 \cup it.pushed : Occurrences(it.out, v) <= 1
        /\ it.ret = NULL => \A v \in it.live0 \ it.removed : Occurrences(it.out, v) = 1

\* C12 (amended): in a forward iteration (ObMap_GetNext from NULL, fed the object
\* returned before) with pushes and no removal in between, the j-th call returns
\* the entry at logical index j, so that every entry live at the start is returned
\* exactly once, in logical order and followed by the entries pushed meanwhile,
\* before the iteration returns NULL.
C12_ForwardIterationWithPushes ==
    (it.started /\ it.kind = "next" /\ it.removed = {}) =>
        /\ \A j \in 1..Len(it.out) : it.out[j] = _ObMap_GetByEntryIndex(m, j)
        /\ \A v \in it.live0 \cup it.pushed : Occurrences(it.out, v) <= 1
        /\ it.ret = NULL =>
            /\ it.calls = m.c
            /\ \A v \in LiveValues(m) : Occurrences(it.out, v) = 1

\* a forward iteration over three entries with a push in between has returned NULL
C12_Witness ==
    /\ it.started /\ it.kind = "next" /\ it.removed = {} /\ it.pushed # {}
    /\ it.ret = NULL
    /\ Cardinality(it.live0) >= 3
    /\ it.calls = Cardinality(it.live0) + Cardinality(it.pushed) + 1

\* ------------------------------------------------------------ allocation failure
\* A caller pushes generated pairs, keys descending, while LocalAlloc may fail
\* in a bounded number of calls; a failed push is tried again. A small map is
\* sorted by key, the scratch allocation failing or not.

MaxAllocPush == 260

MaxAllocFailures == 2

MaxAllocSortCount == 4

AllocKey(i) == 37 * (MaxAllocPush + 2 - i) + 5

AllocValue(i) == 100 * i

\* every live logical index has its table and its store
MapUsable(mm) ==
    {i \in LiveIndices(mm) : ~(/\ OB_MAP_INDEX_DIRECTORY(i) \in mm.Directory
                               /\ <<OB_MAP_INDEX_DIRECTORY(i), OB_MAP_INDEX_TABLE(i)>> \in mm.Stores)} = {}

AllocCall(op, ret, fail) == [op |-> op, ret |-> ret, fail |-> fail]

InitAlloc ==
    /\ \E flags \in PlainFlags : m = ObMap_New(flags)
    /\ last = AllocCall("New", NULL, "none")
    /\ hist = NoHist
    /\ gen = NoGen
    /\ LockSRW = 0
    /\ th = NoThreads
    /\ it = NoIter
    /\ heap = NoHeap

\* the call returned r: fail is recorded when it made the call fail
AllocPushed(fail, r) ==
    /\ r.ret \/ gen.ops < MaxAllocFailures
    /\ m' = r.m
    /\ last' = AllocCall("Push", r.ret, IF r.ret THEN "none" ELSE fail)
    /\ gen' = [gen EXCEPT !.n = @ + 1, !.g = IF r.ret THEN @ + 1 ELSE @, !.ops = IF r.ret THEN @ ELSE @ + 1]
    /\ heap' = [heap EXCEPT !.leaked = @ + r.leaked]

\* ObMap_Push of the next pair
AllocPush(fail) ==
    /\ gen.n < MaxAllocPush
    /\ MapUsable(m)
    /\ AllocPushed(fail, _ObMap_PushAlloc(m, AllocKey(gen.g + 1), AllocValue(gen.g + 1), fail))
    /\ UNCHANGED <<hist, LockSRW, th, it>>

\* ObMap_SortEntryIndexByKey, the scratch allocation succeeding
AllocSort ==
    /\ MapUsable(m)
    /\ m.c > 2
    /\ m.c <= MaxAllocSortCount
    /\ last.op # "Sort"
    /\ \E pSort \in QSortResults(m, LiveIndices(m)) : m' = _ObMap_SortEntryIndex(m, pSort)
    /\ last' = AllocCall("Sort", TRUE, "none")
    /\ UNCHANGED <<heap, hist, gen, LockSRW, th, it>>

\* ObMap_SortEntryIndexByKey, the scratch allocation failing: return FALSE
AllocSortFail ==
    /\ MapUsable(m)
    /\ m.c > 2
    /\ m.c <= MaxAllocSortCount
    /\ gen.ops < MaxAllocFailures
    /\ m' = m
    /\ last' = AllocCall("Sort", FALSE, "scratch")
    /\ gen' = [gen EXCEPT !.ops = @ + 1]
    /\ UNCHANGED <<heap, hist, LockSRW, th, it>>

NextAlloc ==
    \/ \E fail \in AllocFailures \ {"scratch"} : AllocPush(fail)
    \/ AllocSort
    \/ AllocSortFail

SpecAlloc == InitAlloc /\ [][NextAlloc]_vars

\* the lookups of the entries live in mm give the same answers in mn
SameLookups(mm, mn) ==
    \A i \in LiveIndices(mm) :
        /\ DirectoryEntry(mn, i) = DirectoryEntry(mm, i)
        /\ ObMap_Exists(mn, DirectoryEntry(mm, i).v)
        /\ mm.fKey => ObMap_GetByKey(mn, DirectoryEntry(mm, i).k) = DirectoryEntry(mm, i).v

\* C13: a call in which an allocation fails returns FALSE, leaks no block
\* allocated earlier in the call, and leaves the map usable with the same size,
\* the same entries at the same logical indices and the same lookups
C13_AllocationFailureHarmless ==
    [][last'.fail # "none" =>
          /\ last'.ret = FALSE
          /\ heap'.leaked = heap.leaked
          /\ MapUsable(m')
          /\ m'.c = m.c
          /\ SameLookups(m, m')]_vars

\* ------------------------------------------------------------------ ownership
\* A small map of any policy and a caller that holds objects and buffers. The
\* reference count of an object is changed by Ob_INCREF and Ob_DECREF (ob.h,
\* not part of ob_map.c: both accept NULL and do nothing for it).

MaxOwnHeld == 2

OwnKeys == {187, 443}

OwnAddrs == {187, 443}

Ob_INCREF(h, pv) == IF pv = NULL THEN h ELSE [h EXCEPT !.ref[pv] = @ + 1]

Ob_DECREF(h, pv) == IF pv = NULL THEN h ELSE [h EXCEPT !.ref[pv] = @ - 1]

LocalAlloc(h, pv) == [h EXCEPT !.buf = @ \cup {pv}]

LocalFree(h, pv) ==
    IF pv = NULL THEN h
    ELSE IF pv \in h.buf THEN [h EXCEPT !.buf = @ \ {pv}]
    ELSE [h EXCEPT !.twice = TRUE]

\* the for loops of _ObMap_ObFreeAllObjects, for(i = iFirst; i < pObMap->c; i++),
\* up to iEnd, on [m, heap] (the range is halved to keep the evaluation shallow)
RECURSIVE ObFreeRange(_, _, _)
ObFreeRange(acc, iFirst, iEnd) ==
    IF ~(iFirst < acc.m.c) \/ iFirst >= iEnd THEN acc
    ELSE IF iFirst + 1 = iEnd
         THEN IF acc.m.fObjectsOb THEN [acc EXCEPT !.heap = Ob_DECREF(@, DirectoryEntry(acc.m, iFirst).v)]
              ELSE IF acc.m.fObjectsLocalFree THEN [acc EXCEPT !.heap = LocalFree(@, DirectoryEntry(acc.m, iFirst).v)]
              ELSE acc
    ELSE LET iMid == (iFirst + iEnd) \div 2
         IN  ObFreeRange(ObFreeRange(acc, iFirst, iMid), iMid, iEnd)

_ObMap_ObFreeAllObjects(mm, h, iFirst) == ObFreeRange([m |-> mm, heap |-> h], iFirst, mm.c).heap

\* _ObMap_ObCloseCallback: the heap after the map is destroyed
_ObMap_ObCloseCallback(mm, h) == _ObMap_ObFreeAllObjects(mm, h, 1)

\* the heap after ObMap_Clear
ClearHeap(mm, h) == IF mm.c <= 1 THEN h ELSE _ObMap_ObFreeAllObjects(mm, h, 1)

\* _ObMap_GetByEntryIndex: if(pm->fObjectsOb) Ob_INCREF(pvObObject)
GetByEntryIndexHeap(mm, h, pvObObject) == IF mm.fObjectsOb THEN Ob_INCREF(h, pvObObject) ELSE h

\* _ObMap_GetNext*: if(pm->fObjectsOb) Ob_DECREF(pvObject), then the INCREF of
\* _ObMap_GetByEntryIndex on the object returned
GetNextHeap(mm, h, pvObject, ret) ==
    GetByEntryIndexHeap(mm, IF mm.fObjectsOb THEN Ob_DECREF(h, pvObject) ELSE h, ret)

_ObMap_GetNextByKey(mm, qwKey, pvObject) ==
    LET iEntry == _ObMap_GetEntryIndexFromKeyOrValue(mm, FALSE, qwKey)
    IN  IF pvObject = NULL THEN _ObMap_GetByEntryIndex(mm, 1)
        ELSE IF iEntry = 0 THEN NULL
        ELSE _ObMap_GetByEntryIndex(mm, iEntry + 1)

ObMap_GetNextByKey(mm, qwKey, pvObject) == _ObMap_GetNextByKey(mm, qwKey, pvObject)

\* a faulty push: no Ob_INCREF
PushHeap_NoIncref(mm, h, pvObject, ret) == h

\* _ObMap_Push: if(pm->fObjectsOb) Ob_INCREF(pvObject), reached when it returns TRUE
PushHeap(mm, h, pvObject, ret) == IF ret /\ mm.fObjectsOb THEN Ob_INCREF(h, pvObject) ELSE h

\* a faulty filter removal: the removed value is returned and not released
RemoveByFilterRelease_None(mm, h, pv) == h

\* _ObMap_RemoveByFilter: Ob_DECREF / LocalFree of the removed value
RemoveByFilterRelease(mm, h, pv) ==
    IF mm.fObjectsOb THEN Ob_DECREF(h, pv)
    ELSE IF mm.fObjectsLocalFree THEN LocalFree(h, pv)
    ELSE h

\* one removal of the loop: r is what _ObMap_RetrieveAndRemoveByEntryIndex gave
RemoveByFilterOne(acc, r) ==
    [m |-> r.m, heap |-> RemoveByFilterRelease(acc.m, acc.heap, r.ret), cRemove |-> acc.cRemove + 1,
     calls |-> acc.calls]

\* pfnFilterRemoveCB(ctx, pEntry->k, pEntry->v) is called, calls taking the
\* entry it is passed; it answers TRUE for the keys of Filter, and the entry
\* at iEntry is then removed and released
RemoveByFilterEntry(acc, pEntry, iEntry, Filter) ==
    IF pEntry.k \in Filter
    THEN RemoveByFilterOne([acc EXCEPT !.calls = Append(@, pEntry)], _ObMap_RetrieveAndRemoveByEntryIndex(acc.m, iEntry))
    ELSE [acc EXCEPT !.calls = Append(@, pEntry)]

\* a faulty loop: the indices are visited from 1 upwards
RemoveByFilterVisit_Ascending(acc, iEntry, Filter) ==
    IF Len(acc.calls) + 1 < acc.m.c
    THEN RemoveByFilterEntry(acc, DirectoryEntry(acc.m, Len(acc.calls) + 1), Len(acc.calls) + 1, Filter)
    ELSE acc

\* the body of the loop at iEntry: pEntry = &pm->Directory[..][..][..]
RemoveByFilterVisit(acc, iEntry, Filter) == RemoveByFilterEntry(acc, DirectoryEntry(acc.m, iEntry), iEntry, Filter)

\* the for loop of _ObMap_RemoveByFilter, for(iEntry = pm->c - 1; iEntry; iEntry--),
\* from iHigh down to iLow, on [m, heap, cRemove, calls]; no index at or above
\* the count is visited (the range is halved to keep the evaluation shallow)
RECURSIVE RemoveByFilterLoop(_, _, _, _)
RemoveByFilterLoop(acc, iHigh, iLow, Filter) ==
    IF iHigh < iLow \/ ~(iHigh < acc.m.c) THEN acc
    ELSE IF iHigh = iLow THEN RemoveByFilterVisit(acc, iHigh, Filter)
    ELSE LET iMid == (iHigh + iLow) \div 2
         IN  RemoveByFilterLoop(RemoveByFilterLoop(acc, iHigh, iMid + 1, Filter), iMid, iLow, Filter)

\* _ObMap_RemoveByFilter from iEntry down to 1, the callback answering TRUE for
\* the keys of Filter: [m, heap, cRemove, calls]
_ObMap_RemoveByFilter(mm, h, iEntry, Filter, cRemove) ==
    RemoveByFilterLoop([m |-> mm, heap |-> h, cRemove |-> cRemove, calls |-> << >>], iEntry, 1, Filter)

\* a faulty copy: the buffer is kept when the push fails
PushCopyFailed_Keep(h, pvObjectCopy) == h

\* _ObMap_PushCopy: LocalFree(pvObjectCopy) after a failed _ObMap_Push
PushCopyFailed(h, pvObjectCopy) == LocalFree(h, pvObjectCopy)

\* _ObMap_PushCopy after LocalAlloc returned pvObjectCopy and _ObMap_Push returned r
PushCopyPushed(h, pvObjectCopy, r) ==
    IF r.ret THEN [m |-> r.m, heap |-> LocalAlloc(h, pvObjectCopy), ret |-> TRUE]
    ELSE [m |-> r.m,
          heap |-> [PushCopyFailed(LocalAlloc(h, pvObjectCopy), pvObjectCopy) EXCEPT !.leaked = @ + r.leaked],
          ret |-> FALSE]

\* _ObMap_PushCopy, LocalAlloc returning pvObjectCopy unless fail is "copy":
\* [m, heap, ret]
_ObMap_PushCopy(mm, h, qwKey, pvObjectCopy, fail) ==
    IF ~mm.fObjectsLocalFree THEN [m |-> mm, heap |-> h, ret |-> FALSE]
    ELSE IF fail = "copy" THEN [m |-> mm, heap |-> h, ret |-> FALSE]
    ELSE PushCopyPushed(h, pvObjectCopy, _ObMap_PushAlloc(mm, qwKey, pvObjectCopy, fail))

\* the record of a call: the key or index passed is not kept
OwnCall(op, k, v, ret) == [op |-> op, v |-> v, ret |-> ret]

\* the objects exist before the map does, the caller holding one reference to each
OwnHeap(fObjectsOb) ==
    [leaked |-> 0, buf |-> {},
     ref |-> [a \in OwnAddrs |-> IF fObjectsOb THEN 1 ELSE 0],
     held |-> [a \in OwnAddrs |-> IF fObjectsOb THEN 1 ELSE 0],
     twice |-> FALSE]

\* ObMap_New with a valid combination of flags
InitOwn ==
    /\ \E flags \in {f \in SUBSET OB_MAP_FLAGS : ~BothOwnerships(f)} : m = ObMap_New(flags)
    /\ last = OwnCall("New", 0, NULL, TRUE)
    /\ hist = NoHist
    /\ gen = NoGen
    /\ LockSRW = 0
    /\ th = NoThreads
    /\ it = NoIter
    /\ heap = OwnHeap(m.fObjectsOb)

\* the caller has a map: ObMap_New returned one (the ret of "New") and it is
\* not destroyed yet
OwnOpen == IF last.op = "New" THEN last.ret ELSE last.op # "Close"

\* the caller may pass pv to the map: it holds a reference to the object, or
\* the buffer is outstanding
Holds(pv) ==
    IF pv = NULL THEN TRUE
    ELSE IF m.fObjectsOb THEN heap.held[pv] >= 1
    ELSE IF m.fObjectsLocalFree THEN pv \in heap.buf
    ELSE TRUE

\* the caller has room for one more reference to pv
CanHold(pv) == IF m.fObjectsOb /\ pv # NULL THEN heap.held[pv] < MaxOwnHeld ELSE TRUE

\* the caller's account of its references: one more, one less
Hold(mm, h, pv) == IF mm.fObjectsOb /\ pv # NULL THEN [h EXCEPT !.held[pv] = @ + 1] ELSE h

Unhold(mm, h, pv) == IF mm.fObjectsOb /\ pv # NULL THEN [h EXCEPT !.held[pv] = @ - 1] ELSE h

OwnStep(op, k, v, mn, hn, ret) ==
    /\ OwnOpen
    /\ m' = mn
    /\ heap' = hn
    /\ last' = OwnCall(op, k, v, ret)
    /\ UNCHANGED <<hist, gen, LockSRW, th, it>>

OwnPush(k, pv) ==
    /\ OwnOpen
    /\ Holds(pv)
    /\ OwnStep("Push", k, pv, _ObMap_Push(m, k, pv).m,
               PushHeap(m, heap, pv, _ObMap_Push(m, k, pv).ret), _ObMap_Push(m, k, pv).ret)

OwnPushCopy(k, fail) ==
    \E pvObjectCopy \in OwnAddrs \ heap.buf :
        OwnStep("PushCopy", k, IF _ObMap_PushCopy(m, heap, k, pvObjectCopy, fail).ret THEN pvObjectCopy ELSE NULL,
                _ObMap_PushCopy(m, heap, k, pvObjectCopy, fail).m,
                _ObMap_PushCopy(m, heap, k, pvObjectCopy, fail).heap,
                _ObMap_PushCopy(m, heap, k, pvObjectCopy, fail).ret)

\* a removal that returns the value: ObMap_Remove, ObMap_RemoveByKey, ObMap_Pop, ObMap_PopWithKey
OwnRetrieve(op, k, pv, r) ==
    /\ OwnOpen
    /\ CanHold(r.ret)
    /\ OwnStep(op, k, pv, r.m, Hold(m, heap, r.ret), r.ret)

OwnRemove(pv) == OwnRetrieve("Remove", 0, pv, _ObMap_RemoveOrRemoveByKey(m, TRUE, pv))

OwnRemoveByKey(k) == OwnRetrieve("RemoveByKey", k, NULL, _ObMap_RemoveOrRemoveByKey(m, FALSE, k))

OwnPop == OwnRetrieve("Pop", 0, NULL, _ObMap_RetrieveAndRemoveByEntryIndex(m, PopEntryIndex(m)))

OwnPopWithKey == OwnRetrieve("PopWithKey", 0, NULL, _ObMap_RetrieveAndRemoveByEntryIndex(m, PopEntryIndex(m)))

OwnRemoveByFilter(Filter) ==
    OwnStep("RemoveByFilter", 0, NULL,
            _ObMap_RemoveByFilter(m, heap, m.c - 1, Filter, 0).m,
            _ObMap_RemoveByFilter(m, heap, m.c - 1, Filter, 0).heap,
            _ObMap_RemoveByFilter(m, heap, m.c - 1, Filter, 0).cRemove)

OwnClear == OwnStep("Clear", 0, NULL, _ObMap_Clear(m), ClearHeap(m, heap), TRUE)

\* the last reference to the map is dropped: _ObMap_ObCloseCallback
OwnClose == OwnStep("Close", 0, NULL, m, _ObMap_ObCloseCallback(m, heap), NULL)

\* a retrieval that returns the object ret: ObMap_GetByIndex, ObMap_GetByKey, ObMap_Peek
OwnGet(op, k, ret) ==
    /\ OwnOpen
    /\ CanHold(ret)
    /\ OwnStep(op, k, NULL, m, Hold(m, GetByEntryIndexHeap(m, heap, ret), ret), ret)

\* an iteration step that is passed pvObject and returns ret: ObMap_GetNext,
\* ObMap_GetNextByKey, ObMap_GetNextByIndex, ObMap_GetNextByKeySorted
OwnGetNext(op, k, pvObject, ret) ==
    /\ OwnOpen
    /\ Holds(pvObject)
    /\ CanHold(ret) \/ ret = pvObject
    /\ OwnStep(op, k, pvObject, m, Hold(m, Unhold(m, GetNextHeap(m, heap, pvObject, ret), pvObject), ret), ret)

\* the caller drops a reference it holds
OwnDecref(pv) ==
    /\ OwnOpen
    /\ m.fObjectsOb
    /\ heap.held[pv] >= 1
    /\ OwnStep("Decref", 0, pv, m, Unhold(m, Ob_DECREF(heap, pv), pv), NULL)

\* the caller frees a buffer the map does not hold
OwnLocalFree(pv) ==
    /\ OwnOpen
    /\ m.fObjectsLocalFree
    /\ pv \in heap.buf \ LiveValues(m)
    /\ OwnStep("LocalFree", 0, pv, m, LocalFree(heap, pv), NULL)

NextOwn ==
    \/ \E k \in OwnKeys, pv \in OwnAddrs \cup {NULL} : OwnPush(k, pv)
    \/ \E k \in OwnKeys, fail \in {"none", "copy"} : OwnPushCopy(k, fail)
    \/ \E pv \in OwnAddrs : OwnRemove(pv)
    \/ \E k \in OwnKeys : OwnRemoveByKey(k)
    \/ OwnPop
    \/ OwnPopWithKey
    \/ \E Filter \in SUBSET OwnKeys : OwnRemoveByFilter(Filter)
    \/ OwnClear
    \/ OwnClose
    \/ \E index \in 0..2 : OwnGet("GetByIndex", index, ObMap_GetByIndex(m, index))
    \/ \E k \in OwnKeys : OwnGet("GetByKey", k, ObMap_GetByKey(m, k))
    \/ OwnGet("Peek", 0, ObMap_Peek(m))
    \/ \E pv \in OwnAddrs \cup {NULL} : OwnGetNext("GetNext", 0, pv, ObMap_GetNext(m, pv))
    \/ \E k \in OwnKeys, pv \in OwnAddrs \cup {NULL} : OwnGetNext("GetNextByKey", k, pv, ObMap_GetNextByKey(m, k, pv))
    \/ \E dwIndex \in 0..3, pv \in OwnAddrs \cup {NULL} :
          OwnGetNext("GetNextByIndex", dwIndex, pv, ObMap_GetNextByIndex(m, dwIndex, pv).ret)
    \/ \E k \in OwnKeys \cup {0}, pv \in OwnAddrs \cup {NULL} :
          OwnGetNext("GetNextByKeySorted", k, pv, ObMap_GetNextByKeySorted(m, k))
    \/ \E pv \in OwnAddrs : OwnDecref(pv)
    \/ \E pv \in OwnAddrs : OwnLocalFree(pv)

SpecOwn == InitOwn /\ [][NextOwn]_vars

\* the values a call released from the map mm, mn being the map after it
Released(mm, mn, op) == IF op = "Close" THEN LiveValues(mm) ELSE LiveValues(mm) \ LiveValues(mn)

C15_OneReferencePerLiveValue ==
    m.fObjectsOb =>
        \A pv \in OwnAddrs :
            heap.ref[pv] = heap.held[pv] + (IF last.op # "Close" /\ pv \in LiveValues(m) THEN 1 ELSE 0)

C15_Witness ==
    /\ m.fObjectsOb
    /\ last.op = "GetNext"
    /\ last.v # NULL
    /\ last.ret # NULL
    /\ last.ret # last.v
    /\ heap.ref[last.ret] = 2
    /\ heap.ref[last.v] = 1

\* ------------------------------------------------------------------ creation
\* ObMap_New with any combination of flags, the calls of the ownership run after it

InitNew ==
    /\ \E flags \in SUBSET OB_MAP_FLAGS :
          /\ m = ObMap_New(flags)
          /\ last = OwnCall("New", 0, flags, ~BothOwnerships(flags))
          /\ heap = OwnHeap(OB_MAP_FLAGS_OBJECT_OB \in flags /\ ~BothOwnerships(flags))
    /\ hist = NoHist
    /\ gen = NoGen
    /\ LockSRW = 0
    /\ th = NoThreads
    /\ it = NoIter

SpecNew == InitNew /\ [][NextOwn]_vars

\* what ObMap_New returned for the flags it was given
NewResult(flags) ==
    IF OB_MAP_FLAGS_OBJECT_OB \in flags /\ OB_MAP_FLAGS_OBJECT_LOCALFREE \in flags
    THEN ~last.ret /\ m = NULL
    ELSE /\ last.ret
         /\ m.c = 1
         /\ ObMap_Size(m) = 0
         /\ m.pHashMapKey = ZeroHashMap
         /\ m.pHashMapValue = ZeroHashMap
         /\ m.fKey = (OB_MAP_FLAGS_NOKEY \notin flags)
         /\ m.fObjectsOb = (OB_MAP_FLAGS_OBJECT_OB \in flags)
         /\ m.fObjectsLocalFree = (OB_MAP_FLAGS_OBJECT_LOCALFREE \in flags)

\* C18: ObMap_New with both OB_MAP_FLAGS_OBJECT_OB and OB_MAP_FLAGS_OBJECT_LOCALFREE
\* returns NULL; with any other flags it returns a map with c = 1, size 0, empty
\* hash tables, keys unless OB_MAP_FLAGS_NOKEY is set and the ownership policy
\* of the flags, which no later call changes
C18_NewAndFixedPolicy ==
    /\ [](last.op = "New" => NewResult(last.v))
    /\ [][/\ m'.fObjectsOb = m.fObjectsOb
          /\ m'.fObjectsLocalFree = m.fObjectsLocalFree]_vars

C18_Witness ==
    /\ last.op = "New"
    /\ OB_MAP_FLAGS_OBJECT_OB \in last.v
    /\ OB_MAP_FLAGS_OBJECT_LOCALFREE \in last.v
    /\ ~last.ret

\* ------------------------------------------------------------- bulk copies
\* A caller makes ObMap_PushCopy calls with generated keys on a map with or
\* without OB_MAP_FLAGS_OBJECT_LOCALFREE while LocalAlloc may fail in a bounded
\* number of calls; a failed call is tried again, and a key already pushed is
\* pushed again.

MaxCopyPush == 260

CopyCall(op, ret, fail, pv) == [op |-> op, ret |-> ret, fail |-> fail, v |-> pv]

InitCopy ==
    /\ \E flags \in {{OB_MAP_FLAGS_OBJECT_LOCALFREE}, {OB_MAP_FLAGS_OBJECT_LOCALFREE, OB_MAP_FLAGS_NOKEY}, {}} :
          m = ObMap_New(flags)
    /\ last = CopyCall("New", NULL, "none", NULL)
    /\ hist = NoHist
    /\ gen = NoGen
    /\ LockSRW = 0
    /\ th = NoThreads
    /\ it = NoIter
    /\ heap = NoHeap

\* the call returned r: fail is recorded when it made the call fail
CopyPushed(fail, r) ==
    /\ r.ret \/ gen.ops < MaxAllocFailures
    /\ m' = r.m
    /\ heap' = r.heap
    /\ last' = CopyCall("PushCopy", r.ret, IF r.ret THEN "none" ELSE fail, AllocValue(gen.g + 1))
    /\ gen' = [gen EXCEPT !.n = @ + 1, !.g = IF r.ret THEN @ + 1 ELSE @, !.ops = IF r.ret THEN @ ELSE @ + 1]

\* ObMap_PushCopy of qwKey, LocalAlloc returning the next generated address for
\* the copy
CopyPush(qwKey, fail) ==
    /\ gen.n < MaxCopyPush
    /\ MapUsable(m)
    /\ CopyPushed(fail, _ObMap_PushCopy(m, heap, qwKey, AllocValue(gen.g + 1), fail))
    /\ UNCHANGED <<hist, LockSRW, th, it>>

CopyPushNext == \E fail \in AllocFailures \ {"scratch"} : CopyPush(AllocKey(gen.g + 1), fail)

\* a key is a duplicate in a map with keys only
CopyPushAgain ==
    /\ gen.g >= 1
    /\ m.fKey
    /\ CopyPush(AllocKey(1), "none")

NextCopy ==
    \/ CopyPushNext
    \/ CopyPushAgain

SpecCopy == InitCopy /\ [][NextCopy]_vars

\* C16: ObMap_PushCopy on a map without OB_MAP_FLAGS_OBJECT_LOCALFREE returns
\* FALSE, allocates nothing and leaves the map as it is; with the flag a call
\* that returns TRUE has stored a fresh buffer as the value, and a call that
\* returns FALSE leaves the outstanding buffers, the allocations and the map
\* contents as they were before the call
C16_PushCopyFailureRestores ==
    [][last'.op = "PushCopy" =>
          /\ ~m.fObjectsLocalFree => (last'.ret = FALSE /\ m' = m /\ heap' = heap)
          /\ last'.ret = TRUE =>
                /\ last'.v \notin heap.buf
                /\ heap'.buf = heap.buf \cup {last'.v}
                /\ ObMap_GetByIndex(m', m.c - 1) = last'.v
          /\ last'.ret = FALSE =>
                /\ heap'.buf = heap.buf
                /\ heap'.leaked = heap.leaked
                /\ ~heap'.twice
                /\ MapUsable(m')
                /\ m'.c = m.c
                /\ SameLookups(m, m')]_vars

\* ------------------------------------------------------------------ capacity
\* A map that has been filled up to a few entries below its capacity of 2^25
\* and is then pushed to and popped from.  The entries it was filled with are
\* not represented (base): they are taken to have keys and values whose hash
\* slots are away from the slots that the calls of the run probe, which are
\* then empty as in the sparse hash tables of the model.

MaxFullPush == 40

MaxFullOps == 2

FullKey(i) == 37 * i + 5

FullValue(i) == 100 * i

\* cHashGrowThreshold of a map whose count is c: doubled at each threshold passed
RECURSIVE FullGrowThreshold(_, _)
FullGrowThreshold(cHashGrowThreshold, c) ==
    IF cHashGrowThreshold < c THEN FullGrowThreshold(2 * cHashGrowThreshold, c) ELSE cHashGrowThreshold

\* the map after c - 1 pushes; of the tables and stores allocated, those that
\* hold the entry c - 1 are represented
FullMap(flags, c) ==
    [ObMap_New(flags) EXCEPT
        !.c = c,
        !.base = c - 1,
        !.fLargeMode = TRUE,
        !.cHashGrowThreshold = FullGrowThreshold(INITIAL_GROW_THRESHOLD, c),
        !.cHashMax = (FullGrowThreshold(INITIAL_GROW_THRESHOLD, c) \div INITIAL_GROW_THRESHOLD) * INITIAL_HASH_MAX,
        !.Directory = {OB_MAP_INDEX_DIRECTORY(c - 1)},
        !.Stores = {<<OB_MAP_INDEX_DIRECTORY(c - 1), OB_MAP_INDEX_TABLE(c - 1)>>}]

InitFull ==
    /\ \E flags \in PlainFlags : m = FullMap(flags, OB_MAP_TABLE_MAX_CAPACITY - MaxFullPush)
    /\ last = NoCall
    /\ hist = NoHist
    /\ gen = NoGen
    /\ LockSRW = 0
    /\ th = NoThreads
    /\ it = NoIter
    /\ heap = NoHeap

FullPushed(k, pv, r) ==
    /\ m' = r.m
    /\ last' = [NoCall EXCEPT !.op = "Push", !.k = k, !.v = pv, !.ret = r.ret]
    /\ gen' = [gen EXCEPT !.n = @ + 1, !.g = IF r.ret THEN @ + 1 ELSE @]

\* ObMap_Push of the next generated pair, a key and a value not in the map
FullPush ==
    /\ gen.n < MaxFullPush + MaxFullOps + 2
    /\ FullPushed(FullKey(gen.g + 1), FullValue(gen.g + 1), _ObMap_Push(m, FullKey(gen.g + 1), FullValue(gen.g + 1)))
    /\ UNCHANGED <<heap, hist, LockSRW, th, it>>

FullPopped(r) ==
    /\ m' = r.m
    /\ last' = [NoCall EXCEPT !.op = "Pop", !.ret = r.ret]
    /\ gen' = [gen EXCEPT !.ops = @ + 1]

\* ObMap_Pop of an entry pushed in this run
FullPop ==
    /\ gen.ops < MaxFullOps
    /\ m.c - 1 > m.base
    /\ FullPopped(_ObMap_RetrieveAndRemoveByEntryIndex(m, PopEntryIndex(m)))
    /\ UNCHANGED <<heap, hist, LockSRW, th, it>>

NextFull ==
    \/ FullPush
    \/ FullPop

SpecFull == InitFull /\ [][NextFull]_vars

MaxLockCalls == 2

LockOps == {"Push", "Pop", "Size", "Clear"}

\* the calls made through OB_MAP_CALL_SYNCHRONIZED_IMPLEMENTATION_READ
LockSharedOps == {"Size"}

\* the last step: the thread, its call, and how the step touches the count,
\* the storage or the hash tables of the map ("none", "read", "write")
LockStepOf(t, op, access) == [t |-> t, op |-> op, access |-> access]

InitLock ==
    /\ \E flags \in PlainFlags : m = ObMap_New(flags)
    /\ last = LockStepOf(0, "New", "none")
    /\ hist = NoHist
    /\ gen = NoGen
    /\ LockSRW = [x |-> 0, s |-> {}]
    /\ th = [t \in Threads |-> [pc |-> "idle", op |-> "New", n |-> 0, acq |-> 0]]
    /\ it = NoIter
    /\ heap = NoHeap

\* a thread enters a public function: OB_MAP_IS_VALID(pm) looks at the object
\* header only
LockCall(t, op) ==
    /\ th[t].pc = "idle"
    /\ th[t].n < MaxLockCalls
    /\ th' = [th EXCEPT ![t].pc = IF op = "Clear" THEN "check" ELSE "acquire", ![t].op = op, ![t].acq = 0]
    /\ last' = LockStepOf(t, op, "none")
    /\ UNCHANGED <<heap, m, hist, gen, LockSRW, it>>

\* ObMap_Clear: if(!OB_MAP_IS_VALID(pm) || (pm->c <= 1)) { return TRUE; }
LockClearCheck(t) ==
    /\ th[t].pc = "check"
    /\ th' = [th EXCEPT ![t].pc = IF m.c <= 1 THEN "idle" ELSE "acquire",
                        ![t].n = IF m.c <= 1 THEN @ + 1 ELSE @]
    /\ last' = LockStepOf(t, "Clear", "read")
    /\ UNCHANGED <<heap, m, hist, gen, LockSRW, it>>

\* AcquireSRWLockShared / AcquireSRWLockExclusive
LockAcquire(t) ==
    /\ th[t].pc = "acquire"
    /\ LockSRW.x = 0
    /\ th[t].op \in LockSharedOps \/ LockSRW.s = {}
    /\ LockSRW' = IF th[t].op \in LockSharedOps THEN [LockSRW EXCEPT !.s = @ \cup {t}] ELSE [LockSRW EXCEPT !.x = t]
    /\ th' = [th EXCEPT ![t].pc = "body", ![t].acq = @ + 1]
    /\ last' = LockStepOf(t, th[t].op, "none")
    /\ UNCHANGED <<heap, m, hist, gen, it>>

\* the map after the body of the call op of thread t
LockBodyMap(t, op) ==
    IF op = "Push" THEN _ObMap_Push(m, ConcKey(t, th[t].n + 1), ConcValue(t, th[t].n + 1)).m
    ELSE IF op = "Pop" THEN _ObMap_RetrieveAndRemoveByEntryIndex(m, PopEntryIndex(m)).m
    ELSE IF op = "Clear" THEN _ObMap_Clear(m)
    ELSE m

\* retVal = fn; for ObMap_Clear the second check of pm->c and the clearing
LockBody(t) ==
    /\ th[t].pc = "body"
    /\ m' = LockBodyMap(t, th[t].op)
    /\ th' = [th EXCEPT ![t].pc = "release"]
    /\ last' = LockStepOf(t, th[t].op, IF th[t].op \in LockSharedOps THEN "read" ELSE "write")
    /\ UNCHANGED <<heap, hist, gen, LockSRW, it>>

\* ReleaseSRWLockShared / ReleaseSRWLockExclusive; return
LockRelease(t) ==
    /\ th[t].pc = "release"
    /\ LockSRW' = IF th[t].op \in LockSharedOps THEN [LockSRW EXCEPT !.s = @ \ {t}] ELSE [LockSRW EXCEPT !.x = 0]
    /\ th' = [th EXCEPT ![t].pc = "idle", ![t].n = @ + 1]
    /\ last' = LockStepOf(t, th[t].op, "none")
    /\ UNCHANGED <<heap, m, hist, gen, it>>

NextLock ==
    \E t \in Threads :
        \/ \E op \in LockOps : LockCall(t, op)
        \/ LockClearCheck(t)
        \/ LockAcquire(t)
        \/ LockBody(t)
        \/ LockRelease(t)

SpecLock == InitLock /\ [][NextLock]_vars

\* thread t holds the lock in a mode that covers the access
LockCovers(t, access) == LockSRW.x = t \/ (access = "read" /\ t \in LockSRW.s)

\* a thread other than t holds the lock exclusively: it is inside a mutation
OtherMutates(t) == LockSRW.x # 0 /\ LockSRW.x # t

\* C19: a public call reads or writes the count, the storage and the hash
\* tables only while its thread holds the lock (shared for a read, exclusive
\* for a mutation), acquires the lock at most once, and holds no lock when it
\* has returned; no access is made while another thread is inside a mutation
C19_EveryAccessUnderLock ==
    [][/\ last'.access # "none" => (LockCovers(last'.t, last'.access) /\ ~OtherMutates(last'.t))
       /\ \A t \in Threads : th'[t].acq <= 1
       /\ \A t \in Threads : th'[t].pc = "idle" => (LockSRW'.x # t /\ t \notin LockSRW'.s)]_vars

\* ------------------------------------------------------------------ hash tables
\* Every mutating call on maps that fill up: the pairs of the bulk insertion
\* are pushed (copied, in a map that owns buffers) up to past the first
\* doubling of the hash tables, and at a few counts (nearly empty, crowded
\* small tables, right after the doubling) entries are popped, removed,
\* filtered out, cleared or sorted.

MaxHashPush == 200

MaxHashOps == 2

MaxHashSortCount == 4

HashFlags == {{}, {OB_MAP_FLAGS_NOKEY}, {OB_MAP_FLAGS_OBJECT_LOCALFREE}}

\* the counts c at which the caller makes a call other than a push
HashOpCounts == {3, 4, 150, 193}

\* the pairs the caller picks for ObMap_Remove and ObMap_RemoveByKey
HashVictims == {1, 75}

\* the keys the filter callbacks of the caller accept
HashFilters == {{GrowKey(i) : i \in {j \in 1..MaxHashPush : j % 3 = 0}}, {GrowKey(i) : i \in 100..MaxHashPush}}

HashCall(op, ret) == [op |-> op, ret |-> ret]

InitHash ==
    /\ \E flags \in HashFlags : m = ObMap_New(flags)
    /\ last = HashCall("New", TRUE)
    /\ hist = NoHist
    /\ gen = NoGen
    /\ LockSRW = 0
    /\ th = NoThreads
    /\ it = NoIter
    /\ heap = NoHeap

HashPushed(op, r, hn) ==
    /\ m' = r.m
    /\ heap' = hn
    /\ last' = HashCall(op, r.ret)
    /\ gen' = [gen EXCEPT !.n = @ + 1, !.g = @ + 1]
    /\ UNCHANGED <<hist, LockSRW, th, it>>

HashPush ==
    /\ gen.n < MaxHashPush
    /\ ~m.fObjectsLocalFree
    /\ HashPushed("Push", _ObMap_Push(m, GrowKey(gen.g + 1), GrowValue(gen.g + 1)), heap)

HashPushCopied(r) == HashPushed("PushCopy", r, r.heap)

HashPushCopy ==
    /\ gen.n < MaxHashPush
    /\ m.fObjectsLocalFree
    /\ HashPushCopied(_ObMap_PushCopy(m, heap, GrowKey(gen.g + 1), GrowValue(gen.g + 1), "none"))

HashStep(op, mn, hn, ret) ==
    /\ gen.ops < MaxHashOps
    /\ m.c \in HashOpCounts
    /\ m' = mn
    /\ heap' = hn
    /\ last' = HashCall(op, ret)
    /\ gen' = [gen EXCEPT !.ops = @ + 1]
    /\ UNCHANGED <<hist, LockSRW, th, it>>

\* a removal that returns the value
HashRetrieved(op, r) == HashStep(op, r.m, heap, r.ret)

HashPop == HashRetrieved("Pop", _ObMap_RetrieveAndRemoveByEntryIndex(m, PopEntryIndex(m)))

HashRemove(j) == HashRetrieved("Remove", _ObMap_RemoveOrRemoveByKey(m, TRUE, GrowValue(j)))

HashRemoveByKey(j) == HashRetrieved("RemoveByKey", _ObMap_RemoveOrRemoveByKey(m, FALSE, GrowKey(j)))

HashFiltered(r) == HashStep("RemoveByFilter", r.m, r.heap, r.cRemove)

HashRemoveByFilter(Filter) == HashFiltered(_ObMap_RemoveByFilter(m, heap, m.c - 1, Filter, 0))

HashClear == HashStep("Clear", _ObMap_Clear(m), ClearHeap(m, heap), TRUE)

HashSort ==
    /\ m.c <= MaxHashSortCount
    /\ \E pSort \in QSortResults(m, LiveIndices(m)) : HashStep("Sort", _ObMap_SortEntryIndex(m, pSort), heap, TRUE)

NextHash ==
    \/ HashPush
    \/ HashPushCopy
    \/ HashPop
    \/ \E j \in HashVictims : HashRemove(j)
    \/ \E j \in HashVictims : HashRemoveByKey(j)
    \/ \E Filter \in HashFilters : HashRemoveByFilter(Filter)
    \/ HashClear
    \/ HashSort

SpecHash == InitHash /\ [][NextHash]_vars

\* the slots of a hash table that hold an index
HashSlotsUsed(mm, fValueHash) == {j \in DOMAIN (IF fValueHash THEN mm.pHashMapValue ELSE mm.pHashMapKey) : HashSlot(mm, fValueHash, j) # 0}

\* the home slot of the entry iEntry in a hash table
HashHome(mm, fValueHash, iEntry) == HashIndex(mm, _ObMap_GetFromEntryIndex(mm, fValueHash, iEntry))

\* no slot from iHome to iHash, walking as the probe walks, is empty
ProbeUnbroken(mm, fValueHash, iHome, iHash) ==
    \A d \in 0..(((iHash + mm.cHashMax) - iHome) % mm.cHashMax) : HashSlot(mm, fValueHash, (iHome + d) % mm.cHashMax) # 0

HashTableWellFormed(mm, fValueHash) ==
    /\ HashSlotsUsed(mm, fValueHash) \subseteq 0..(mm.cHashMax - 1)
    /\ Cardinality(HashSlotsUsed(mm, fValueHash)) = mm.c - 1
    /\ {HashSlot(mm, fValueHash, j) : j \in HashSlotsUsed(mm, fValueHash)} = LiveIndices(mm)
    /\ \A j \in HashSlotsUsed(mm, fValueHash) : ProbeUnbroken(mm, fValueHash, HashHome(mm, fValueHash, HashSlot(mm, fValueHash, j)), j)

\* C20: after every completed call each index in [1, c-1] occupies exactly one
\* slot of the value hash table and, in keyed mode, exactly one slot of the key
\* hash table; no slot holds an index outside [1, c-1]; and each entry is
\* reached by linear probing from its home slot without crossing an empty slot
C20_HashTablesWellFormed ==
    /\ HashTableWellFormed(m, TRUE)
    /\ IF m.fKey THEN HashTableWellFormed(m, FALSE) ELSE HashSlotsUsed(m, FALSE) = {}

\* a keyed map with the doubled tables, after a filtered removal out of the
\* middle, in which some key sits away from its home slot
C20_Witness ==
    /\ last.op = "RemoveByFilter"
    /\ last.ret > 1
    /\ m.fKey
    /\ m.fLargeMode
    /\ m.c > 100
    /\ \E j \in HashSlotsUsed(m, FALSE) : HashHome(m, FALSE, HashSlot(m, FALSE, j)) # j

\* ------------------------------------------------------------------ live entries

\* C21: in every reachable state c >= 1, the live entries occupy the logical
\* indices 1..c-1 with no holes, every live value is non-null, the live values
\* are pairwise distinct in every mode, and in keyed mode the live keys are
\* pairwise distinct
C21_LiveEntriesWellFormed ==
    /\ m.c >= 1
    /\ Len(m.Store) >= m.c - 1
    /\ \A i \in LiveIndices(m) : DirectoryEntry(m, i).v # NULL
    /\ \A i \in LiveIndices(m) : \A j \in LiveIndices(m) : i # j => DirectoryEntry(m, i).v # DirectoryEntry(m, j).v
    /\ m.fKey => \A i \in LiveIndices(m) : \A j \in LiveIndices(m) : i # j => DirectoryEntry(m, i).k # DirectoryEntry(m, j).k

\* a keyed map of two entries, one of which a removal moved into the freed index
C21_Witness ==
    /\ m.fKey
    /\ m.c = 3
    /\ last.op \in {"Remove", "RemoveByKey"}
    /\ last.ret # NULL
    /\ last.reordered

\* ------------------------------------------------------------------ removal moves the last entry

\* the example: (10, A), (20, B), (30, C) pushed in this order into a keyed map
ExampleA == 1000 + 1

ExampleB == 1000 + 2

ExampleC == 1000 + 3

ExamplePushed == _ObMap_Push(_ObMap_Push(_ObMap_Push(ObMap_New({}), 10, ExampleA).m, 20, ExampleB).m, 30, ExampleC).m

ExampleRemoved == _ObMap_RemoveOrRemoveByKey(ExamplePushed, FALSE, 20).m

\* the removal of index i out of the map mm gave mn: the entry of the last index
\* is at i when i was not the last index, every other entry kept its index
RemoveMovedLast(mm, mn, i) ==
    /\ mn.c = mm.c - 1
    /\ \A j \in LiveIndices(mn) : j # i => DirectoryEntry(mn, j) = DirectoryEntry(mm, j)
    /\ i < mm.c - 1 => DirectoryEntry(mn, i) = DirectoryEntry(mm, mm.c - 1)

\* C22: when ObMap_Remove / ObMap_RemoveByKey removes the entry at the logical
\* index i < c-1, the entry of the last index c-1 ends up at i and every other
\* entry keeps its index; when i = c-1 no entry moves.  After pushing (10, A),
\* (20, B), (30, C), ObMap_PeekKey is 30, and after RemoveByKey(20) the size is 2
\* and the iteration yields (10, A) then (30, C), (30, C) at the index (20, B) had.
C22_RemoveMovesLastIntoHole ==
    [][(last'.op \in {"Remove", "RemoveByKey"} /\ last'.ret # NULL) =>
            /\ \E i \in RemoveTargets(m, last'.op, last'.k, last'.v) :
                    DirectoryEntry(m, i).v = last'.ret /\ RemoveMovedLast(m, m', i)
            /\ ObMap_PeekKey(ExamplePushed) = 30
            /\ DirectoryEntry(ExamplePushed, 2) = [k |-> 20, v |-> ExampleB]
            /\ ObMap_Size(ExampleRemoved) = 2
            /\ ObMap_GetNext(ExampleRemoved, NULL) = ExampleA
            /\ ObMap_GetKey(ExampleRemoved, ExampleA) = 10
            /\ ObMap_GetNext(ExampleRemoved, ExampleA) = ExampleC
            /\ ObMap_GetKey(ExampleRemoved, ExampleC) = 30
            /\ ObMap_GetNext(ExampleRemoved, ExampleC) = NULL
            /\ DirectoryEntry(ExampleRemoved, 2) = [k |-> 30, v |-> ExampleC]]_vars

\* ObMap_Remove took the first of three entries: the third is now the first
C22_Witness ==
    /\ last.op = "Remove"
    /\ last.ret # NULL
    /\ last.reordered
    /\ ObMap_Size(m) = 2
    /\ ObMap_GetNext(m, NULL) # NULL
    /\ ObMap_GetNext(m, ObMap_GetNext(m, NULL)) # NULL

\* ------------------------------------------------------------------ removal by filter

MaxFilterEntries == 3

FilterKeys == {5, 261, 6}

FilterAddrs == {101, 102, 103}

\* pfnFilterRemoveCB: NULL, or a function that answers TRUE for the keys of keys
NoCallback == [null |-> TRUE, keys |-> {}]

FilterCallbacks == {NoCallback} \cup {[null |-> FALSE, keys |-> K] : K \in SUBSET FilterKeys}

\* ObMap_RemoveByFilter: if(!pfnFilterRemoveCB) { return 0; }, then
\* _ObMap_RemoveByFilter under the lock: [m, heap, cRemove, calls]
ObMap_RemoveByFilter(mm, h, pfnFilterRemoveCB) ==
    IF pfnFilterRemoveCB.null THEN [m |-> mm, heap |-> h, cRemove |-> 0, calls |-> << >>]
    ELSE _ObMap_RemoveByFilter(mm, h, mm.c - 1, pfnFilterRemoveCB.keys, 0)

\* the objects and buffers exist before the map does: the caller holds one
\* reference to each object, the buffers are outstanding
FilterHeap(flags) ==
    [leaked |-> 0,
     buf |-> IF OB_MAP_FLAGS_OBJECT_LOCALFREE \in flags THEN FilterAddrs ELSE {},
     ref |-> [a \in FilterAddrs |-> IF OB_MAP_FLAGS_OBJECT_OB \in flags THEN 1 ELSE 0],
     held |-> [a \in FilterAddrs |-> IF OB_MAP_FLAGS_OBJECT_OB \in flags THEN 1 ELSE 0],
     twice |-> FALSE]

\* what is known of the last ObMap_RemoveByFilter: its callback, the map and
\* the heap it started from, the entries the callback was passed
FilterCall(pfnFilterRemoveCB, mm, h, calls) == [pfn |-> pfnFilterRemoveCB, m0 |-> mm, heap0 |-> h, calls |-> calls]

InitFilter ==
    /\ \E flags \in {f \in SUBSET OB_MAP_FLAGS : ~BothOwnerships(f)} :
          /\ m = ObMap_New(flags)
          /\ heap = FilterHeap(flags)
          /\ it = FilterCall(NoCallback, ObMap_New(flags), FilterHeap(flags), << >>)
    /\ last = OwnCall("New", 0, NULL, TRUE)
    /\ hist = NoHist
    /\ gen = NoGen
    /\ LockSRW = 0
    /\ th = NoThreads

FilterPushed(k, pv, r) ==
    /\ m' = r.m
    /\ heap' = PushHeap(m, heap, pv, r.ret)
    /\ last' = OwnCall("Push", k, pv, r.ret)
    /\ it' = FilterCall(NoCallback, r.m, PushHeap(m, heap, pv, r.ret), << >>)
    /\ UNCHANGED <<hist, gen, LockSRW, th>>

\* ObMap_Push of a value the caller still has
FilterPush(k, pv) ==
    /\ m.c - 1 < MaxFilterEntries
    /\ m.fObjectsLocalFree => pv \in heap.buf
    /\ FilterPushed(k, pv, _ObMap_Push(m, k, pv))

FilterFiltered(pfnFilterRemoveCB, r) ==
    /\ m' = r.m
    /\ heap' = r.heap
    /\ last' = OwnCall("RemoveByFilter", 0, NULL, r.cRemove)
    /\ it' = FilterCall(pfnFilterRemoveCB, m, heap, r.calls)
    /\ UNCHANGED <<hist, gen, LockSRW, th>>

FilterRemoveByFilter(pfnFilterRemoveCB) == FilterFiltered(pfnFilterRemoveCB, ObMap_RemoveByFilter(m, heap, pfnFilterRemoveCB))

NextFilter ==
    \/ \E k \in FilterKeys, pv \in FilterAddrs : FilterPush(k, pv)
    \/ \E pfnFilterRemoveCB \in FilterCallbacks : FilterRemoveByFilter(pfnFilterRemoveCB)

SpecFilter == InitFilter /\ [][NextFilter]_vars

\* the indices of mm whose entry the callback answers TRUE for
FilterChosen(mm, pfnFilterRemoveCB) == {i \in LiveIndices(mm) : DirectoryEntry(mm, i).k \in pfnFilterRemoveCB.keys}

\* the heap after the values of Removed were released by a map with the flags of mm
FilterReleased(mm, h, Removed) ==
    [h EXCEPT !.ref = [a \in FilterAddrs |-> IF mm.fObjectsOb /\ a \in Removed THEN @[a] - 1 ELSE @[a]],
              !.buf = IF mm.fObjectsLocalFree THEN @ \ Removed ELSE @]

\* every live entry of mm is found by its value, and by its key in a keyed map
FilterRetrievable(mm) ==
    \A i \in LiveIndices(mm) :
        /\ ObMap_Exists(mm, DirectoryEntry(mm, i).v)
        /\ mm.fKey => ObMap_GetByKey(mm, DirectoryEntry(mm, i).k) = DirectoryEntry(mm, i).v

\* C23: ObMap_RemoveByFilter calls the callback exactly once for each entry that
\* was live at the start of the call, removes and releases (Ob_DECREF or
\* LocalFree, as the flags of the map say) exactly the entries the callback
\* answered TRUE for, leaves exactly the others live and retrievable, and
\* returns the number of entries removed; with a NULL callback it returns 0 and
\* changes nothing.
C23_RemoveByFilterExact ==
    last.op = "RemoveByFilter" =>
        IF it.pfn.null
        THEN m = it.m0 /\ heap = it.heap0 /\ last.ret = 0 /\ it.calls = << >>
        ELSE /\ Len(it.calls) = it.m0.c - 1
             /\ \A i \in LiveIndices(it.m0) :
                    Cardinality({j \in 1..Len(it.calls) : it.calls[j] = DirectoryEntry(it.m0, i)}) = 1
             /\ LivePairs(m) = {<<DirectoryEntry(it.m0, i).k, DirectoryEntry(it.m0, i).v>> :
                                    i \in LiveIndices(it.m0) \ FilterChosen(it.m0, it.pfn)}
             /\ m.c - 1 = Cardinality(LiveIndices(it.m0) \ FilterChosen(it.m0, it.pfn))
             /\ FilterRetrievable(m)
             /\ \A i \in FilterChosen(it.m0, it.pfn) : ~ObMap_Exists(m, DirectoryEntry(it.m0, i).v)
             /\ last.ret = Cardinality(FilterChosen(it.m0, it.pfn))
             /\ heap = FilterReleased(it.m0, it.heap0, {DirectoryEntry(it.m0, i).v : i \in FilterChosen(it.m0, it.pfn)})

\* the callback chose the first of three entries of a reference-counting map:
\* the removal moved the third, already visited, into the first index
C23_Witness ==
    /\ last.op = "RemoveByFilter"
    /\ ~it.pfn.null
    /\ it.m0.fObjectsOb
    /\ it.m0.c = 4
    /\ FilterChosen(it.m0, it.pfn) = {1}
    /\ last.ret = 1
    /\ DirectoryEntry(m, 1) = DirectoryEntry(it.m0, 3)

\* ------------------------------------------------------------------ iteration in logical order

MaxFwdEntries == 3

MaxFwdCalls == 5

\* the pairs the maps are built from: one more than a map holds
FwdPairs == {<<10 * i, 100 + i>> : i \in 1..(MaxFwdEntries + 1)}

FwdVals == {p[2] : p \in FwdPairs}

\* the caller's record: pushed are the values in the order of their pushes,
\* ordered says that no removal and no sort was made, out are the objects an
\* iteration started with NULL returned so far
NoFwd == [pushed |-> << >>, ordered |-> TRUE, started |-> FALSE, ret |-> NULL, calls |-> 0, out |-> << >>]

InitFwd ==
    /\ \E flags \in PlainFlags : m = ObMap_New(flags)
    /\ last = NoCall
    /\ hist = NoHist
    /\ gen = NoGen
    /\ LockSRW = 0
    /\ th = NoThreads
    /\ it = NoFwd
    /\ heap = NoHeap

FwdPushed(p, r) ==
    /\ m' = r.m
    /\ last' = Call("Push", p[1], p[2], r.ret, 0, m, r.m)
    /\ it' = [it EXCEPT !.pushed = IF r.ret THEN Append(@, p[2]) ELSE @]
    /\ UNCHANGED <<heap, hist, gen, LockSRW, th>>

\* the map is built before the iteration starts and is not changed during it
FwdPush(p) ==
    /\ ~it.started
    /\ m.c - 1 < MaxFwdEntries
    /\ FwdPushed(p, _ObMap_Push(m, p[1], p[2]))

FwdRemoved(pvObject, r) ==
    /\ m' = r.m
    /\ last' = Call("Remove", 0, pvObject, r.ret, 0, m, r.m)
    /\ it' = [it EXCEPT !.ordered = FALSE]
    /\ UNCHANGED <<heap, hist, gen, LockSRW, th>>

FwdRemove(pvObject) ==
    /\ ~it.started
    /\ it.ordered
    /\ FwdRemoved(pvObject, _ObMap_RemoveOrRemoveByKey(m, TRUE, pvObject))

FwdSorted(mn) ==
    /\ m' = mn
    /\ last' = Call("Sort", 0, NULL, TRUE, 0, m, mn)
    /\ it' = [it EXCEPT !.ordered = FALSE]
    /\ UNCHANGED <<heap, hist, gen, LockSRW, th>>

FwdSort ==
    /\ ~it.started
    /\ it.ordered
    /\ \E pSort \in QSortResults(m, LiveIndices(m)) : FwdSorted(_ObMap_SortEntryIndex(m, pSort))

FwdReturned(pvObject, ret, rec) ==
    /\ last' = [op |-> "GetNext", k |-> 0, v |-> pvObject, ret |-> ret, key |-> 0, reordered |-> FALSE]
    /\ it' = rec
    /\ UNCHANGED <<heap, m, hist, gen, LockSRW, th>>

\* the first call of an iteration: ObMap_GetNext(pm, NULL)
FwdStart ==
    /\ ~it.started
    /\ FwdReturned(NULL, ObMap_GetNext(m, NULL),
                   [it EXCEPT !.started = TRUE, !.ret = ObMap_GetNext(m, NULL), !.calls = 1, !.out = <<ObMap_GetNext(m, NULL)>>])

\* a later call, with the object the call before returned
FwdNext ==
    /\ it.started
    /\ it.ret # NULL
    /\ it.calls < MaxFwdCalls
    /\ FwdReturned(it.ret, ObMap_GetNext(m, it.ret),
                   [it EXCEPT !.ret = ObMap_GetNext(m, it.ret), !.calls = @ + 1, !.out = Append(@, ObMap_GetNext(m, it.ret))])

\* a call outside an iteration, with any object, in the map or not
FwdProbe(pvObject) ==
    /\ ~it.started
    /\ FwdReturned(pvObject, ObMap_GetNext(m, pvObject), it)

NextFwd ==
    \/ \E p \in FwdPairs : FwdPush(p)
    \/ \E pvObject \in FwdVals : FwdRemove(pvObject)
    \/ FwdSort
    \/ FwdStart
    \/ FwdNext
    \/ \E pvObject \in FwdVals : FwdProbe(pvObject)

SpecFwd == InitFwd /\ [][NextFwd]_vars

\* the value at the logical index i, NULL past the last entry
FwdValueAt(mm, i) == IF i \in LiveIndices(mm) THEN DirectoryEntry(mm, i).v ELSE NULL

\* the logical indices that hold the value pv
FwdIndicesOf(mm, pv) == {i \in LiveIndices(mm) : DirectoryEntry(mm, i).v = pv}

\* C24: ObMap_GetNext(NULL) returns the entry at the logical index 1;
\* ObMap_GetNext(prev) returns the entry at index(prev) + 1, NULL when prev is
\* the last entry and NULL when prev is not in the map (any more).  While the map
\* is not changed, an iteration started with NULL returns every live entry once,
\* in increasing order of the logical index (the order of the pushes when no
\* removal and no sort was made), and then NULL.
C24_ForwardIteration ==
    /\ last.op = "GetNext" =>
          /\ last.v = NULL => last.ret = FwdValueAt(m, 1)
          /\ last.v # NULL => \A i \in FwdIndicesOf(m, last.v) : last.ret = FwdValueAt(m, i + 1)
          /\ (last.v # NULL /\ FwdIndicesOf(m, last.v) = {}) => last.ret = NULL
          /\ last.v = FwdValueAt(m, m.c - 1) /\ last.v # NULL => last.ret = NULL
    /\ it.started =>
          /\ it.out = [j \in 1..it.calls |-> FwdValueAt(m, j)]
          /\ it.ret = NULL <=> it.calls = m.c
          /\ it.calls <= m.c
          /\ (it.ret = NULL /\ it.ordered) => it.out = Append(it.pushed, NULL)

\* an iteration over three entries is over: after a removal moved the last
\* of three pushed entries to the first index, four calls returned the entries in the
\* order of their indices and then NULL
C24_Witness ==
    /\ it.started
    /\ ~it.ordered
    /\ m.c = 4
    /\ it.calls = 4
    /\ it.ret = NULL
    /\ Len(it.pushed) = 4
    /\ it.out[1] = it.pushed[3]

\* ------------------------------------------------------------------ the search in a sorted map

MaxQFindEntries == 40

\* the distance of two neighbouring keys
QFindStrides == {1, 2, 3}

\* the key at the logical index i: 0, 1, 2, ... or 1, 3, 5, ... or 2, 5, 8, ...
QFindKey(s, i) == s * i - 1

QFindValue(i) == 1000 + i

InitQFind ==
    /\ m = ObMap_New({})
    /\ last = NoCall
    /\ hist = NoHist
    /\ gen = NoGen
    /\ LockSRW = 0
    /\ th = NoThreads
    /\ \E s \in QFindStrides : it = [s |-> s, reads |-> {}]
    /\ heap = NoHeap

QFindPushed(r) ==
    /\ r.ret
    /\ m' = r.m
    /\ last' = Call("Push", 0, NULL, r.ret, 0, m, r.m)
    /\ it' = [it EXCEPT !.reads = {}]
    /\ UNCHANGED <<heap, hist, gen, LockSRW, th>>

\* the caller fills the map in ascending key order
QFindPush ==
    /\ m.c - 1 < MaxQFindEntries
    /\ QFindPushed(_ObMap_Push(m, QFindKey(it.s, m.c), QFindValue(m.c)))

QFindFound(qwKey, r) ==
    /\ last' = [op |-> "QFind", k |-> qwKey, v |-> NULL, ret |-> r.i, key |-> 0, reordered |-> FALSE]
    /\ it' = [it EXCEPT !.reads = r.reads]
    /\ UNCHANGED <<heap, m, hist, gen, LockSRW, th>>

\* _ObMap_QFind(pm, qwKey, &dwIndex) for the keys up to one above the last key
QFindCall(qwKey) ==
    /\ qwKey <= QFindKey(it.s, m.c)
    /\ QFindFound(qwKey, QFindRun(m, qwKey))

NextQFind ==
    \/ QFindPush
    \/ \E qwKey \in 0..QFindKey(3, MaxQFindEntries + 1) : QFindCall(qwKey)

SpecQFind == InitQFind /\ [][NextQFind]_vars

\* the logical indices whose key is at least qwKey
QFindAtLeast(mm, qwKey) == {i \in LiveIndices(mm) : DirectoryEntry(mm, i).k >= qwKey}

\* the smallest index of the non-empty set S
QFindFirst(S) == CHOOSE i \in S : \A j \in S : i <= j

\* C25: in a map whose keys at the indices 1..c-1 ascend strictly, _ObMap_QFind
\* returns TRUE with *pdwIndex the smallest index i in [1, c-1] with
\* key(i) >= K (the index of K when K is present), returns FALSE exactly when
\* the map is empty or every key is below K, and reads no index outside
\* [1, c-1], for every size.
C25_QFindFirstAtLeast ==
    (last.op = "QFind" /\ KeysAscend(m)) =>
        /\ QFindAtLeast(m, last.k) # {} => last.ret = QFindFirst(QFindAtLeast(m, last.k))
        /\ last.ret = 0 <=> (m.c = 1 \/ \A i \in LiveIndices(m) : DirectoryEntry(m, i).k < last.k)
        /\ last.k \in LiveKeys(m) => (last.ret # 0 /\ DirectoryEntry(m, last.ret).k = last.k)
        /\ it.reads \subseteq LiveIndices(m)

\* forty entries with the keys 2, 5, 8, ...: the search for the absent key 100
\* went through both loops and returned the index of the key 101
C25_Witness ==
    /\ last.op = "QFind"
    /\ m.c - 1 = MaxQFindEntries
    /\ it.s = 3
    /\ last.k = 100
    /\ last.ret = 34
    /\ DirectoryEntry(m, last.ret).k = 101
    /\ Cardinality(it.reads) >= 4

\* ------------------------------------------------------------------ iteration by key in a sorted map

\* the largest key of the maps iterated over; their keys are 0..MaxKeyIterKey
MaxKeyIterKey == 5

MaxKeyIterCalls == 8

KeyIterKeys == 0..MaxKeyIterKey

\* the caller's record of an iteration: the object returned last, the number
\* of calls, the objects returned so far
NoKeyIter == [started |-> FALSE, ret |-> NULL, calls |-> 0, out |-> << >>]

InitKeyIter ==
    /\ m = ObMap_New({})
    /\ last = NoCall
    /\ hist = NoHist
    /\ gen = NoGen
    /\ LockSRW = 0
    /\ th = NoThreads
    /\ it = NoKeyIter
    /\ heap = NoHeap

KeyIterPushed(k, r) ==
    /\ m' = r.m
    /\ last' = Call("Push", k, SortValue(k), r.ret, 0, m, r.m)
    /\ UNCHANGED <<heap, hist, gen, LockSRW, th, it>>

\* the map is filled in ascending key order before the iteration starts
KeyIterPush(k) ==
    /\ ~it.started
    /\ m.c = 1 \/ k > ObMap_PeekKey(m)
    /\ KeyIterPushed(k, _ObMap_Push(m, k, SortValue(k)))

KeyIterReturned(qwKey, pvObject, ret) ==
    /\ last' = [op |-> "GetNextByKeySorted", k |-> qwKey, v |-> pvObject, ret |-> ret, key |-> 0, reordered |-> FALSE]
    /\ it' = [started |-> TRUE, ret |-> ret, calls |-> it.calls + 1, out |-> Append(it.out, ret)]
    /\ UNCHANGED <<heap, m, hist, gen, LockSRW, th>>

\* the first call: ObMap_GetNextByKeySorted(pm, 0, NULL)
KeyIterStart ==
    /\ ~it.started
    /\ KeyIterReturned(0, NULL, ObMap_GetNextByKeySorted(m, 0))

\* a later call, with the key of the object the call before returned
KeyIterNext ==
    /\ it.started
    /\ it.ret # NULL
    /\ it.calls < MaxKeyIterCalls
    /\ KeyIterReturned(ObMap_GetKey(m, it.ret), it.ret, ObMap_GetNextByKeySorted(m, ObMap_GetKey(m, it.ret)))

NextKeyIter ==
    \/ \E k \in KeyIterKeys : KeyIterPush(k)
    \/ KeyIterStart
    \/ KeyIterNext

SpecKeyIter == InitKeyIter /\ [][NextKeyIter]_vars

\* C26: on a keyed map sorted ascending by key, the iteration that starts with
\* ObMap_GetNextByKeySorted(0) and passes the key of the entry just returned
\* visits every live entry once, in ascending key order, and then returns NULL,
\* for every set of keys, a set that contains the key 0 included.
C26_SortedIterationVisitsAll ==
    (it.started /\ m.fKey /\ KeysAscend(m)) =>
        /\ it.out = [j \in 1..it.calls |-> FwdValueAt(m, j)]
        /\ it.ret = NULL <=> it.calls = m.c
        /\ it.calls <= m.c

\* the iteration over the keys 0 and 5 returned the entry of the key 0 at
\* each of its calls
C26_StuckAtKeyZero ==
    /\ it.started
    /\ LiveKeys(m) = {0, 5}
    /\ it.calls = MaxKeyIterCalls
    /\ \A j \in 1..it.calls : it.out[j] = SortValue(0)

\* restricted to the maps without the key 0 the iteration is as stated
C26_WithoutKeyZero == 0 \notin LiveKeys(m) => C26_SortedIterationVisitsAll

\* ------------------------------------------------------------------ the size of the hash tables

\* the exponents of the sizes a hash table can take: 0x100 up to the size that
\* holds OB_MAP_TABLE_MAX_CAPACITY entries
HashMaxExponents == 8..26

\* the table has a slot that holds 0: a probe that starts anywhere ends
HasEmptySlot(mm, fValueHash) == \E iHash \in 0..(mm.cHashMax - 1) : HashSlot(mm, fValueHash, iHash) = 0

HashSizeWellFormed(mm) ==
    /\ \E x \in HashMaxExponents : mm.cHashMax = 2 ^ x
    /\ mm.cHashMax >= INITIAL_HASH_MAX
    /\ 4 * mm.cHashGrowThreshold = 3 * mm.cHashMax
    /\ mm.c <= mm.cHashGrowThreshold
    /\ Cardinality(HashSlotsUsed(mm, TRUE)) <= mm.c - 1
    /\ Cardinality(HashSlotsUsed(mm, FALSE)) <= mm.c - 1
    /\ HasEmptySlot(mm, TRUE)
    /\ HasEmptySlot(mm, FALSE)
    /\ mm.fLargeMode <=> mm.cHashMax > INITIAL_HASH_MAX

\* a call took the map mm to mn
HashSizeStep(mm, mn, op) ==
    /\ mn.cHashMax >= mm.cHashMax
    /\ mm.fLargeMode => mn.fLargeMode
    /\ mn.cHashMax # mm.cHashMax => (op = "Push" /\ mm.c = mm.cHashGrowThreshold /\ mn.cHashMax = 2 * mm.cHashMax)
    /\ mn.fLargeMode # mm.fLargeMode => (op = "Push" /\ mm.cHashMax = INITIAL_HASH_MAX /\ mn.cHashMax = 2 * INITIAL_HASH_MAX)

\* C27: in every reachable state cHashMax is a power of two >= 0x100,
\* cHashGrowThreshold is 3/4 of it and c <= cHashGrowThreshold, so that each
\* hash table has an empty slot and the probe loops of insert, lookup and
\* delete end; no call makes cHashMax smaller, not a Clear and not a removal;
\* the map goes to the large mode at its first growth only and never back.
C27_HashSizeMonotone == []HashSizeWellFormed(m) /\ [][HashSizeStep(m, m', last'.op)]_vars

\* a Clear of the map that has grown twice: empty, with tables of 1024 slots
C27_Witness ==
    /\ last.op = "Clear"
    /\ m.c = 1
    /\ m.fLargeMode
    /\ m.cHashMax = 4 * INITIAL_HASH_MAX

\* ------------------------------------------------------------------ maps without keys

\* in a map without keys: no slot of the key hash table is occupied, no key is
\* found, and every live value is found with the key stored with it and with
\* the value that follows it
NoKeyLookups(mm) ==
    /\ HashSlotsUsed(mm, FALSE) = {}
    /\ \A k \in Keys : ~ObMap_ExistsKey(mm, k) /\ ObMap_GetByKey(mm, k) = NULL
    /\ \A i \in LiveIndices(mm) :
          /\ ObMap_Exists(mm, DirectoryEntry(mm, i).v)
          /\ ObMap_GetKey(mm, DirectoryEntry(mm, i).v) = DirectoryEntry(mm, i).k
          /\ ObMap_GetNext(mm, DirectoryEntry(mm, i).v) = FwdValueAt(mm, i + 1)
    /\ \A v \in Vals \ LiveValues(mm) : ~ObMap_Exists(mm, v) /\ ObMap_GetKey(mm, v) = 0 /\ ObMap_GetNext(mm, v) = NULL

\* a call c took the map without keys mm to mn
NoKeyStep(mm, mn, c) ==
    /\ c.op = "Push" =>
          /\ c.ret = (c.v # NULL /\ c.v \notin LiveValues(mm))
          /\ c.ret => /\ mn.c = mm.c + 1
                      /\ DirectoryEntry(mn, mm.c) = [k |-> c.k, v |-> c.v]
                      /\ \A i \in LiveIndices(mm) : DirectoryEntry(mn, i) = DirectoryEntry(mm, i)
          /\ ~c.ret => mn = mm
    /\ c.op = "RemoveByKey" => (c.ret = NULL /\ mn = mm)
    /\ c.op = "Remove" =>
          /\ c.ret = (IF c.v \in LiveValues(mm) THEN c.v ELSE NULL)
          /\ LiveValues(mn) = LiveValues(mm) \ {c.v}
          /\ mn.c = mm.c - (IF c.v \in LiveValues(mm) THEN 1 ELSE 0)
    /\ c.op \in {"Pop", "PopWithKey"} =>
          /\ c.ret = FwdValueAt(mm, mm.c - 1)
          /\ (c.op = "PopWithKey" /\ mm.c > 1) => c.key = DirectoryEntry(mm, mm.c - 1).k
          /\ mn.c = mm.c - (IF mm.c > 1 THEN 1 ELSE 0)
          /\ \A i \in LiveIndices(mn) : DirectoryEntry(mn, i) = DirectoryEntry(mm, i)

\* C28: in a map created with OB_MAP_FLAGS_NOKEY, ObMap_Push accepts entries
\* with equal keys (it refuses a NULL value and a value that is in the map,
\* nothing else), the key hash table is never filled, ObMap_ExistsKey,
\* ObMap_GetByKey and ObMap_RemoveByKey report not-found and leave the map as
\* it is, the calls that go by value (Exists, Remove, GetKey, GetNext, Pop)
\* work as in a keyed map, and ObMap_GetKey / ObMap_PopWithKey return the key
\* stored with the value.
C28_NoKeyMap == [](~m.fKey => NoKeyLookups(m)) /\ [][~m.fKey => NoKeyStep(m, m', last')]_vars

\* three values were pushed under one key into a map without keys, and
\* ObMap_PopWithKey returned the third with that key
C28_Witness ==
    /\ ~m.fKey
    /\ last.op = "PopWithKey"
    /\ last.ret # NULL
    /\ m.c = 3
    /\ DirectoryEntry(m, 1).k = last.key
    /\ DirectoryEntry(m, 2).k = last.key

====
